---- MODULE Spec2Model ----
(***************************************************************************)
(* A model of the bson package: the encoder (encode.go), the decoder       *)
(* (decode.go), Reach (coercion.go), struct projection and NewObjectId     *)
(* (misc.go).                                                              *)
(*                                                                         *)
(* Go strings and byte slices are sequences of bytes (0..255).  A value    *)
(* held in an interface{} is a pair <<type, payload>>; the type is the     *)
(* name of its Go type ("Int32", "Map", "int8", "time.Time", ...).         *)
(* A Map payload is a function from keys to values, a Slice payload a      *)
(* sequence of Pairs [Key, Val], an Array payload a sequence of values.    *)
(* A Float payload is the IEEE-754 bit pattern of the float64 (what        *)
(* math.Float64bits returns) as four 16-bit limbs, least significant       *)
(* first.  Int32, Int64, UTCDateTime and Timestamp payloads are integers;  *)
(* 64-bit payloads are kept within the 32-bit range of TLC's integers, so  *)
(* the upper four bytes on the wire are the sign extension.                *)
(***************************************************************************)
EXTENDS Integers, Sequences, FiniteSets, TLC

VARIABLES
    src,      \* the value handed to the encoder, or the document reached into
    bs,       \* result of Encode / EncodeStruct
    dst,      \* results of the four decode entry points applied to bs
    bs2,      \* result of encoding dst[shape] again
    path,     \* Reach: the dot path
    dest,     \* Reach: the destination variable
    ret,      \* Reach: what the call returned
    lastCount,\* misc.go: the process-wide ObjectId counter
    now,      \* the wall clock, in seconds since the epoch
    oids,     \* the ObjectIds returned so far, in the order the counter was bumped
    call,     \* each caller's NewObjectId call in flight
    proc,     \* the process: its machine id hash and its pid
    stream,   \* the bytes an io.Reader has left
    got       \* what the reads of the stream returned, oldest first

vars == <<src, bs, dst, bs2, path, dest, ret, lastCount, now, oids, call, proc, stream, got>>

(***************************************************************************)
(* Bounds of the model.                                                    *)
(***************************************************************************)
\* pairs in a top-level document
MaxPairs == 2
\* elements of an Array built from arbitrary element values
MaxArr == 2
\* elements of the longest Array of Int32 indices
MaxIdxArr == 11
\* NewObjectId calls in one behaviour
MaxCalls == 3
\* seconds the clock may advance in one behaviour
MaxTicks == 2

(***************************************************************************)
(* Wire types (type.go).                                                   *)
(***************************************************************************)
_FLOATING_POINT == 1
_STRING == 2
_EMBEDDED_DOCUMENT == 3
_ARRAY == 4
_BINARY_DATA == 5
_UNDEFINED == 6
_OBJECT_ID == 7
_BOOLEAN == 8
_UTC_DATETIME == 9
_NULL_VALUE == 10
_REGEXP == 11
_DBPOINTER == 12
_JAVASCRIPT == 13
_SYMBOL == 14
_JAVASCRIPT_SCOPE == 15
_32BIT_INTEGER == 16
_TIMESTAMP == 17
_64BIT_INTEGER == 18
_MIN_KEY == 255
_MAX_KEY == 127

\* decode.go: maximum document size
maxDocLen == 16777216

(***************************************************************************)
(* Values.                                                                 *)
(***************************************************************************)
Kind(v) == v[1]
Of(v) == v[2]

Float(bits) == <<"Float", bits>>
String(s) == <<"String", s>>
Map(m) == <<"Map", m>>
Slice(s) == <<"Slice", s>>
BSON(b) == <<"BSON", b>>
Array(a) == <<"Array", a>>
Binary(b) == <<"Binary", b>>
Undefined == <<"Undefined", 0>>
ObjectId(b) == <<"ObjectId", b>>
Bool(b) == <<"Bool", b>>
UTCDateTime(n) == <<"UTCDateTime", n>>
Null == <<"Null", 0>>
Regexp(p, o) == <<"Regexp", [Pattern |-> p, Options |-> o]>>
DBPointer(n, id) == <<"DBPointer", [Name |-> n, ObjectId |-> id]>>
Javascript(s) == <<"Javascript", s>>
Symbol(s) == <<"Symbol", s>>
JavascriptScope(js, scope) == <<"JavascriptScope", [Javascript |-> js, Scope |-> scope]>>
Int32(n) == <<"Int32", n>>
Timestamp(n) == <<"Timestamp", n>>
Int64(n) == <<"Int64", n>>
MinKey == <<"MinKey", 0>>
MaxKey == <<"MaxKey", 0>>

Pair(k, v) == [Key |-> k, Val |-> v]

\* The empty Map: a function with no key.
EmptyMap == [k \in {} |-> Null]

\* dst[name] = val on a Go map.
MapSet(m, name, val) ==
    [k \in DOMAIN m \cup {name} |-> IF k = name THEN val ELSE m[k]]

\* The Map holding the pairs of a sequence, a later pair replacing an earlier
\* one of the same key.
RECURSIVE MapOfPairs(_)
MapOfPairs(s) ==
    IF s = <<>> THEN EmptyMap
    ELSE LET n == Len(s) IN MapSet(MapOfPairs(SubSeq(s, 1, n - 1)), s[n].Key, s[n].Val)

Min(a, b) == IF a < b THEN a ELSE b

\* Go's integer division truncates toward zero.
GoDiv(a, b) == IF a >= 0 THEN a \div b ELSE -((-a) \div b)

(***************************************************************************)
(* misc.go                                                                 *)
(***************************************************************************)
catpath(p, name) == IF p = <<>> THEN name ELSE p \o <<46>> \o name

(***************************************************************************)
(* Byte primitives of the encoder (encode.go, encoding/binary).            *)
(***************************************************************************)
\* binary.LittleEndian.PutUint32 of a length, 0 <= n < 2^31.
PutUint32(n) ==
    <<n % 256, (n \div 256) % 256, (n \div 65536) % 256, (n \div 16777216) % 256>>

\* binary.Write(buf, binary.LittleEndian, v) of a 32-bit signed value: two's
\* complement, least significant byte first.
writeInt32(v) ==
    IF v >= 0 THEN PutUint32(v)
    ELSE LET c == PutUint32(-(v + 1)) IN [i \in 1..4 |-> 255 - c[i]]

\* binary.Write(buf, binary.LittleEndian, v) of a 64-bit signed value.
writeInt64(v) ==
    writeInt32(v) \o (IF v >= 0 THEN <<0, 0, 0, 0>> ELSE <<255, 255, 255, 255>>)

\* encodeFloat's byte assembly: b[i] = byte(u >> 8i).
writeFloatBits(u) ==
    [i \in 1..8 |-> IF i % 2 = 1 THEN u[(i + 1) \div 2] % 256
                    ELSE u[i \div 2] \div 256]

writeCstring(s) == s \o <<0>>

writeString(s) == PutUint32(Len(s) + 1) \o s \o <<0>>

\* strconv.Itoa of an index.
RECURSIVE Itoa(_)
Itoa(n) == IF n < 10 THEN <<48 + n>> ELSE Itoa(n \div 10) \o <<48 + (n % 10)>>

(***************************************************************************)
(* The encoder.  Go's map iteration order is unspecified, so every         *)
(* encoding operator yields the set of results the call can return, one    *)
(* per iteration order of the Maps it walks.  A result is the bytes        *)
(* written, or the error with the path and type it names.                  *)
(***************************************************************************)
OkB(b) == [ok |-> TRUE, b |-> b, path |-> <<>>, what |-> ""]
ErrB(p, w) == [ok |-> FALSE, b |-> <<>>, path |-> p, what |-> w]

\* type byte, name, payload
Element(type, name, payload) == OkB(<<type>> \o writeCstring(name) \o payload)

\* a document whose length counts the body and the closing 0x00 only
FinishDocNoPrefix(body) == PutUint32(Len(body) + 1) \o body \o <<0>>

\* the size placeholder patched once the body and the closing 0x00 are written
FinishDoc(body) == PutUint32(Len(body) + 5) \o body \o <<0>>

\* every order a range over the keys K can take
Orders(K) ==
    {p \in [1..Cardinality(K) -> K] : \A k \in K : \E i \in DOMAIN p : p[i] = k}

CanonicalKinds ==
    {"Float", "String", "Map", "Slice", "Array", "Binary", "Undefined", "ObjectId",
     "Bool", "UTCDateTime", "Null", "Regexp", "DBPointer", "Javascript", "Symbol",
     "JavascriptScope", "Int32", "Timestamp", "Int64", "MinKey", "MaxKey"}

RECURSIVE encodeVal(_, _, _)
RECURSIVE encodePairs(_, _)
RECURSIVE encodeMap(_, _)
RECURSIVE encodeSlice(_, _)
RECURSIVE encodeArray(_, _, _)
RECURSIVE encodeEmbeddedDocument(_, _, _)
RECURSIVE encodeJavascriptScope(_, _, _)

\* the loop of encodeMap / encodeSlice / encodeStruct / encodeArray over the
\* fields in the order given; the first error ends it
encodePairs(p, pairs) ==
    IF pairs = <<>> THEN {OkB(<<>>)}
    ELSE LET h == Head(pairs)
             rest == encodePairs(p, Tail(pairs))
         IN UNION {IF r.ok THEN {IF q.ok THEN OkB(r.b \o q.b) ELSE q : q \in rest}
                   ELSE {r}
                   : r \in encodeVal(catpath(p, h.Key), h.Key, h.Val)}

encodeSlice(p, s) ==
    {IF r.ok THEN OkB(FinishDoc(r.b)) ELSE r : r \in encodePairs(p, s)}

encodeMap(p, m) ==
    UNION {encodeSlice(p, [i \in DOMAIN o |-> Pair(o[i], m[o[i]])]) : o \in Orders(DOMAIN m)}

encodeEmbeddedDocument(p, name, val) ==
    {IF r.ok THEN Element(_EMBEDDED_DOCUMENT, name, r.b) ELSE r
     : r \in IF Kind(val) = "Map" THEN encodeMap(catpath(p, name), Of(val))
             ELSE encodeSlice(catpath(p, name), Of(val))}

encodeArray(p, name, val) ==
    IF Len(val) = 0 THEN {OkB(<<>>)}
    ELSE {IF r.ok THEN Element(_ARRAY, name, FinishDoc(r.b)) ELSE r
          : r \in encodePairs(p, [i \in DOMAIN val |-> Pair(Itoa(i - 1), val[i])])}

encodeJavascriptScope(p, name, val) ==
    {IF r.ok
     THEN LET tmp == writeString(val.Javascript) \o r.b
          IN Element(_JAVASCRIPT_SCOPE, name, PutUint32(Len(tmp) + 4) \o tmp)
     ELSE r
     : r \in encodeMap(catpath(p, name), val.Scope)}

encodeBinary(name, val) ==
    Element(_BINARY_DATA, name, PutUint32(Len(val)) \o <<0>> \o val)

encodeBool(name, val) == Element(_BOOLEAN, name, IF val THEN <<1>> ELSE <<0>>)

encodeDBPointer(p, name, val) ==
    IF Len(val.ObjectId) # 12 THEN ErrB(p, "DBPointer must be 12 bytes.")
    ELSE Element(_DBPOINTER, name, writeString(val.Name) \o val.ObjectId)

encodeFloat(name, val) == Element(_FLOATING_POINT, name, writeFloatBits(val))

encodeInt32(name, val) == Element(_32BIT_INTEGER, name, writeInt32(val))

encodeInt64(name, val) == Element(_64BIT_INTEGER, name, writeInt64(val))

encodeJavascript(name, val) == Element(_JAVASCRIPT, name, writeString(val))

encodeMaxKey(name) == Element(_MAX_KEY, name, <<>>)

encodeMinKey(name) == Element(_MIN_KEY, name, <<>>)

encodeNull(name) == Element(_NULL_VALUE, name, <<>>)

encodeObjectId(p, name, val) ==
    IF Len(val) # 12 THEN ErrB(p, "ObjectId must be 12 bytes.")
    ELSE Element(_OBJECT_ID, name, val)

encodeRegexp(name, val) ==
    Element(_REGEXP, name, writeCstring(val.Pattern) \o writeCstring(val.Options))

encodeString(name, val) == Element(_STRING, name, writeString(val))

encodeSymbol(name, val) == Element(_SYMBOL, name, writeString(val))

encodeTimestamp(name, val) == Element(_TIMESTAMP, name, writeInt64(val))

encodeUndefined(name) == Element(_UNDEFINED, name, <<>>)

encodeUTCDateTime(name, val) == Element(_UTC_DATETIME, name, writeInt64(val))

\* srct.UnixNano()/1000/1000 of a time.Time given by its nanoseconds since the epoch
\* UnixNano()/1000: microseconds, the second division left out
UnixMicros(nanos) == GoDiv(nanos, 1000)

UnixMillis(nanos) == GoDiv(GoDiv(nanos, 1000), 1000)

\* indirect(rvsrc).Interface(): a pointer is followed to what it points to
RECURSIVE indirect(_)
indirect(v) == IF Kind(v) = "*" THEN indirect(Of(v)) ELSE v

\* A nil pointer, at any depth of indirection, is <<"*", <<"nil", 0>>>>.
IsNilPtr(v) == Kind(v) = "*" /\ Kind(Of(v)) = "nil"

encodeVal(p, name, src0) ==
    IF Kind(src0) = "nil" \/ IsNilPtr(src0) THEN {encodeNull(name)}
    ELSE LET s == indirect(src0)
             k == Kind(s)
             v == Of(s)
         IN CASE k = "Float" -> {encodeFloat(name, v)}
              [] k = "String" -> {encodeString(name, v)}
              [] k \in {"Map", "Slice"} -> encodeEmbeddedDocument(p, name, s)
              [] k = "BSON" -> {OkB(v)}
              [] k = "Array" -> encodeArray(p, name, v)
              [] k = "Binary" -> {encodeBinary(name, v)}
              [] k = "Undefined" -> {encodeUndefined(name)}
              [] k = "ObjectId" -> {encodeObjectId(p, name, v)}
              [] k = "Bool" -> {encodeBool(name, v)}
              [] k = "UTCDateTime" -> {encodeUTCDateTime(name, v)}
              [] k = "Null" -> {encodeNull(name)}
              [] k = "Regexp" -> {encodeRegexp(name, v)}
              [] k = "DBPointer" -> {encodeDBPointer(p, name, v)}
              [] k = "Javascript" -> {encodeJavascript(name, v)}
              [] k = "Symbol" -> {encodeSymbol(name, v)}
              [] k = "JavascriptScope" -> encodeJavascriptScope(p, name, v)
              [] k = "Int32" -> {encodeInt32(name, v)}
              [] k = "Timestamp" -> {encodeTimestamp(name, v)}
              [] k = "Int64" -> {encodeInt64(name, v)}
              [] k = "MinKey" -> {encodeMinKey(name)}
              [] k = "MaxKey" -> {encodeMaxKey(name)}
              [] k = "bool" -> {encodeBool(name, v)}
              [] k \in {"int8", "int16", "int32"} -> {encodeInt32(name, v)}
              [] k \in {"int", "int64"} -> {encodeInt64(name, v)}
              [] k = "float64" -> {encodeFloat(name, v)}
              [] k = "string" -> {encodeString(name, v)}
              [] k = "time.Time" -> {encodeUTCDateTime(name, UnixMillis(v))}
              [] k = "[]byte" -> {encodeBinary(name, v)}
              [] k = "[]interface{}" -> encodeArray(p, name, v)
              [] OTHER -> {ErrB(p, k)}

(***************************************************************************)
(* Byte primitives of the decoder (decode.go).  A reader is the sequence   *)
(* of bytes it has left.  A read yields st = "ok" with the value v and the *)
(* reader after it, st = "err" for a returned error, or st = "panic".      *)
(***************************************************************************)
RdOk(v, rest) == [st |-> "ok", v |-> v, rest |-> rest]
RdFail(st) == [st |-> st, v |-> 0, rest |-> <<>>]

Drop(rd, n) == SubSeq(rd, n + 1, Len(rd))

\* the signed 32-bit value of four little-endian bytes
Int32OfBytes(b) ==
    IF b[4] < 128 THEN b[1] + 256 * b[2] + 65536 * b[3] + 16777216 * b[4]
    ELSE -((255 - b[1]) + 256 * (255 - b[2]) + 65536 * (255 - b[3])
           + 16777216 * (255 - b[4])) - 1

readInt32(rd) ==
    IF Len(rd) < 4 THEN RdFail("err")
    ELSE RdOk(Int32OfBytes(SubSeq(rd, 1, 4)), Drop(rd, 4))

\* A 64-bit value whose upper half is not the sign extension of its lower half
\* has no integer in the model: the read is reported as "wide".
readInt64(rd) ==
    IF Len(rd) < 8 THEN RdFail("err")
    ELSE LET ext == IF rd[4] < 128 THEN 0 ELSE 255
         IN IF \A i \in 5..8 : rd[i] = ext
            THEN RdOk(Int32OfBytes(SubSeq(rd, 1, 4)), Drop(rd, 8))
            ELSE RdFail("wide")

\* decodeFloat's assembly: u += uint64(b[i]) << 8i
readFloatBits(b) == [j \in 1..4 |-> b[2 * j - 1] + 256 * b[2 * j]]

\* position of the first 0x00 of rd, 0 when there is none
RECURSIVE IndexNul(_, _)
IndexNul(rd, i) ==
    IF i > Len(rd) THEN 0 ELSE IF rd[i] = 0 THEN i ELSE IndexNul(rd, i + 1)

readCstring(rd) ==
    LET i == IndexNul(rd, 1)
    IN IF i = 0 THEN RdFail("err") ELSE RdOk(SubSeq(rd, 1, i - 1), Drop(rd, i))

readString(rd) ==
    LET n == readInt32(rd)
    IN IF n.st # "ok" THEN RdFail(n.st)
       ELSE IF n.v = 0 THEN RdOk(<<>>, n.rest)
       ELSE IF n.v > maxDocLen THEN RdFail("err")
       ELSE IF n.v < 0 THEN RdFail("panic")
       ELSE IF Len(n.rest) < n.v THEN RdFail("err")
       ELSE RdOk(SubSeq(n.rest, 1, n.v - 1), Drop(n.rest, n.v))

\* Read one raw bson doc and return it.
\* ReadOne returning the document without its length prefix
ReadOneBare(rd) ==
    LET n == readInt32(rd)
    IN IF n.st # "ok" THEN RdFail(n.st)
       ELSE IF n.v > maxDocLen THEN RdFail("err")
       ELSE IF n.v < 4 THEN RdFail("panic")
       ELSE IF Len(n.rest) < n.v - 4 THEN RdFail("err")
       ELSE RdOk(SubSeq(n.rest, 1, n.v - 4), Drop(n.rest, n.v - 4))

ReadOne(rd) ==
    LET n == readInt32(rd)
    IN IF n.st # "ok" THEN RdFail(n.st)
       ELSE IF n.v > maxDocLen THEN RdFail("err")
       ELSE IF n.v < 4 THEN RdFail("panic")
       ELSE IF Len(n.rest) < n.v - 4 THEN RdFail("err")
       ELSE RdOk(PutUint32(n.v) \o SubSeq(n.rest, 1, n.v - 4), Drop(n.rest, n.v - 4))

(***************************************************************************)
(* sort.Strings: ascending byte-wise order.                                *)
(***************************************************************************)
RECURSIVE StrLess(_, _)
StrLess(a, b) ==
    IF b = <<>> THEN FALSE
    ELSE IF a = <<>> THEN TRUE
    ELSE IF a[1] # b[1] THEN a[1] < b[1]
    ELSE StrLess(Tail(a), Tail(b))

\* ascending order of the numbers the names spell: shorter names first
RECURSIVE SortNumeric(_)
SortNumeric(S) ==
    IF S = {} THEN <<>>
    ELSE LET m == CHOOSE x \in S : \A y \in S \ {x} :
                      Len(x) < Len(y) \/ (Len(x) = Len(y) /\ StrLess(x, y))
         IN <<m>> \o SortNumeric(S \ {m})

RECURSIVE SortStrings(_)
SortStrings(S) ==
    IF S = {} THEN <<>>
    ELSE LET m == CHOOSE x \in S : \A y \in S \ {x} : StrLess(x, y)
         IN <<m>> \o SortStrings(S \ {m})

(***************************************************************************)
(* The decoder.  decodeMap and decodeSlice wrap the caller's reader in a   *)
(* bufio.Reader over an io.LimitReader of docLen-4 bytes; for a document   *)
(* shorter than bufio's 4096-byte buffer the first read takes all of those *)
(* bytes (or all that are there) from the caller's reader.                 *)
(***************************************************************************)
ElOk(name, val, rest) == [st |-> "ok", name |-> name, val |-> val, rest |-> rest]
ElFail(st) == [st |-> st, name |-> <<>>, val |-> Null, rest |-> <<>>]

\* an element: the name n read first, the payload r read after it, val the
\* value made of the payload
Named(n, r, val) ==
    IF n.st # "ok" THEN ElFail(n.st)
    ELSE IF r.st # "ok" THEN ElFail(r.st)
    ELSE ElOk(n.v, val, r.rest)

readBytes(rd, n) ==
    IF Len(rd) < n THEN RdFail("err") ELSE RdOk(SubSeq(rd, 1, n), Drop(rd, n))

readNothing(rd) == RdOk(0, rd)

readByte(rd) == IF rd = <<>> THEN RdFail("err") ELSE RdOk(rd[1], Tail(rd))

readBinary(rd) ==
    LET n == readInt32(rd)
    IN IF n.st # "ok" THEN RdFail(n.st)
       ELSE IF n.rest = <<>> THEN RdFail("err")
       ELSE IF n.v < 0 THEN RdFail("panic")
       ELSE readBytes(Tail(n.rest), n.v)

readDBPointer(rd) ==
    LET n == readString(rd)
    IN IF n.st # "ok" THEN RdFail(n.st)
       ELSE LET b == readBytes(n.rest, 12)
            IN IF b.st # "ok" THEN RdFail(b.st)
               ELSE RdOk([Name |-> n.v, ObjectId |-> b.v], b.rest)

readRegexp(rd) ==
    LET pat == readCstring(rd)
    IN IF pat.st # "ok" THEN RdFail(pat.st)
       ELSE LET opt == readCstring(pat.rest)
            IN IF opt.st # "ok" THEN RdFail(opt.st)
               ELSE RdOk([Pattern |-> pat.v, Options |-> opt.v], opt.rest)

decodeBinary(rd) ==
    LET n == readCstring(rd)
        r == readBinary(n.rest)
    IN Named(n, r, Binary(r.v))

decodeBool(rd) ==
    LET n == readCstring(rd)
        r == readByte(n.rest)
    IN Named(n, r, Bool(r.v = 1))

decodeDBPointer(rd) ==
    LET n == readCstring(rd)
        r == readDBPointer(n.rest)
    IN Named(n, r, <<"DBPointer", r.v>>)

decodeFloat(rd) ==
    LET n == readCstring(rd)
        r == readBytes(n.rest, 8)
    IN Named(n, r, Float(readFloatBits(r.v)))

decodeInt32(rd) ==
    LET n == readCstring(rd)
        r == readInt32(n.rest)
    IN Named(n, r, Int32(r.v))

decodeInt64(rd) ==
    LET n == readCstring(rd)
        r == readInt64(n.rest)
    IN Named(n, r, Int64(r.v))

decodeJavascript(rd) ==
    LET n == readCstring(rd)
        r == readString(n.rest)
    IN Named(n, r, Javascript(r.v))

decodeMaxKey(rd) ==
    LET n == readCstring(rd)
        r == readNothing(n.rest)
    IN Named(n, r, MaxKey)

decodeMinKey(rd) ==
    LET n == readCstring(rd)
        r == readNothing(n.rest)
    IN Named(n, r, MinKey)

decodeNull(rd) ==
    LET n == readCstring(rd)
        r == readNothing(n.rest)
    IN Named(n, r, Null)

decodeObjectId(rd) ==
    LET n == readCstring(rd)
        r == readBytes(n.rest, 12)
    IN Named(n, r, ObjectId(r.v))

decodeRegexp(rd) ==
    LET n == readCstring(rd)
        r == readRegexp(n.rest)
    IN Named(n, r, <<"Regexp", r.v>>)

decodeString(rd) ==
    LET n == readCstring(rd)
        r == readString(n.rest)
    IN Named(n, r, String(r.v))

decodeSymbol(rd) ==
    LET n == readCstring(rd)
        r == readString(n.rest)
    IN Named(n, r, Symbol(r.v))

decodeTimestamp(rd) ==
    LET n == readCstring(rd)
        r == readInt64(n.rest)
    IN Named(n, r, Timestamp(r.v))

decodeUndefined(rd) ==
    LET n == readCstring(rd)
        r == readNothing(n.rest)
    IN Named(n, r, Undefined)

decodeUTCDateTime(rd) ==
    LET n == readCstring(rd)
        r == readInt64(n.rest)
    IN Named(n, r, UTCDateTime(r.v))

RECURSIVE decodeMap(_, _)
RECURSIVE decodeSlice(_, _)
RECURSIVE decodeMapLoop(_, _, _)
RECURSIVE decodeSliceLoop(_, _, _)
RECURSIVE decodeElement(_, _, _, _)
RECURSIVE decodeArray(_)
RECURSIVE decodeJavascriptScope(_)

\* the bufio.Reader over the io.LimitReader: the bytes the document reader
\* takes from the caller's reader
LimitTake(rd, docLen) == IF docLen - 4 <= 0 THEN 0 ELSE Min(docLen - 4, Len(rd))

\* the document made of what the element loop returned
docOf(r, shape, rest) ==
    IF r.st # "ok" THEN RdFail(r.st) ELSE RdOk(<<shape, r.v>>, rest)

\* decodeMap after its read of the length: n is what readInt32 returned
decodeMapDoc(n, nest) ==
    IF n.st # "ok" THEN RdFail(n.st)
    ELSE IF n.v > maxDocLen THEN RdFail("err")
    ELSE docOf(decodeMapLoop(SubSeq(n.rest, 1, LimitTake(n.rest, n.v)), EmptyMap, nest),
               "Map", Drop(n.rest, LimitTake(n.rest, n.v)))

decodeMap(rdTmp, nest) == decodeMapDoc(readInt32(rdTmp), nest)

\* decodeSlice after its read of the length
decodeSliceDoc(n, nest) ==
    IF n.st # "ok" THEN RdFail(n.st)
    ELSE IF n.v > maxDocLen THEN RdFail("err")
    ELSE docOf(decodeSliceLoop(SubSeq(n.rest, 1, LimitTake(n.rest, n.v)), <<>>, nest),
               "Slice", Drop(n.rest, LimitTake(n.rest, n.v)))

decodeSlice(rdTmp, nest) == decodeSliceDoc(readInt32(rdTmp), nest)

\* dst[name] = val and the next turn of the loop of decodeMap
decodeMapNext(e, m, nest) ==
    IF e.st # "ok" THEN RdFail(e.st)
    ELSE decodeMapLoop(e.rest, MapSet(m, e.name, e.val), nest)

\* the for loop of decodeMap
decodeMapLoop(rd, m, nest) ==
    IF rd = <<>> THEN RdFail("err")
    ELSE IF rd[1] = 0 THEN RdOk(m, Tail(rd))
    ELSE decodeMapNext(decodeElement(rd[1], Tail(rd), nest, "Map"), m, nest)

\* dst = append(dst, Pair{name, val}) and the next turn of the loop of decodeSlice
decodeSliceNext(e, s, nest) ==
    IF e.st # "ok" THEN RdFail(e.st)
    ELSE decodeSliceLoop(e.rest, Append(s, Pair(e.name, e.val)), nest)

\* the for loop of decodeSlice
decodeSliceLoop(rd, s, nest) ==
    IF rd = <<>> THEN RdFail("err")
    ELSE IF rd[1] = 0 THEN RdOk(s, Tail(rd))
    ELSE decodeSliceNext(decodeElement(rd[1], Tail(rd), nest, "Slice"), s, nest)

\* the element of name n.v and of the value d.v that a read of a document returned
ElOfDoc(n, d) == IF d.st # "ok" THEN ElFail(d.st) ELSE ElOk(n.v, d.v, d.rest)

\* the element holding the raw bytes b.v that ReadOne returned
ElOfRaw(n, b) == IF b.st # "ok" THEN ElFail(b.st) ELSE ElOk(n.v, BSON(b.v), b.rest)

\* case _EMBEDDED_DOCUMENT after the read of the name
decodeEmbeddedDoc(n, nest, shape) ==
    IF n.st # "ok" THEN ElFail(n.st)
    ELSE IF ~nest THEN ElOfRaw(n, ReadOne(n.rest))
    ELSE IF shape = "Map" THEN ElOfDoc(n, decodeMap(n.rest, TRUE))
    ELSE ElOfDoc(n, decodeSlice(n.rest, TRUE))

\* case _EMBEDDED_DOCUMENT of decodeMap (shape "Map") and decodeSlice ("Slice")
decodeEmbedded(rd, nest, shape) == decodeEmbeddedDoc(readCstring(rd), nest, shape)

\* the switch on the element type of decodeMap and decodeSlice
decodeElement(eType, rd, nest, shape) ==
    CASE eType = _FLOATING_POINT -> decodeFloat(rd)
      [] eType = _STRING -> decodeString(rd)
      [] eType = _EMBEDDED_DOCUMENT -> decodeEmbedded(rd, nest, shape)
      [] eType = _ARRAY -> decodeArray(rd)
      [] eType = _BINARY_DATA -> decodeBinary(rd)
      [] eType = _UNDEFINED -> decodeUndefined(rd)
      [] eType = _OBJECT_ID -> decodeObjectId(rd)
      [] eType = _BOOLEAN -> decodeBool(rd)
      [] eType = _UTC_DATETIME -> decodeUTCDateTime(rd)
      [] eType = _NULL_VALUE -> decodeNull(rd)
      [] eType = _REGEXP -> decodeRegexp(rd)
      [] eType = _DBPOINTER -> decodeDBPointer(rd)
      [] eType = _JAVASCRIPT -> decodeJavascript(rd)
      [] eType = _SYMBOL -> decodeSymbol(rd)
      [] eType = _JAVASCRIPT_SCOPE -> decodeJavascriptScope(rd)
      [] eType = _32BIT_INTEGER -> decodeInt32(rd)
      [] eType = _TIMESTAMP -> decodeTimestamp(rd)
      [] eType = _64BIT_INTEGER -> decodeInt64(rd)
      [] eType = _MIN_KEY -> decodeMinKey(rd)
      [] eType = _MAX_KEY -> decodeMaxKey(rd)
      [] OTHER -> ElFail("err")

\* the Array of the values of a decoded document, in the order of sort.Strings
\* of its names
ArrayOfDoc(doc, ns) == Array([i \in DOMAIN ns |-> doc[ns[i]]])

\* decodeArray after the reads of the name and of the document
decodeArrayDoc(n, d) ==
    IF n.st # "ok" THEN ElFail(n.st)
    ELSE IF d.st # "ok" THEN ElFail(d.st)
    ELSE ElOk(n.v, ArrayOfDoc(Of(d.v), SortStrings(DOMAIN Of(d.v))), d.rest)

\* decodeArray were its body decoded in no-nest mode
decodeArrayNoNest(rd) ==
    decodeArrayDoc(readCstring(rd), decodeMap(readCstring(rd).rest, FALSE))

decodeArray(rd) == decodeArrayDoc(readCstring(rd), decodeMap(readCstring(rd).rest, TRUE))

\* decodeJavascriptScope after its reads: the name n, the length l, the
\* code js and the scope m
decodeJavascriptScopeDoc(n, l, js, m) ==
    IF n.st # "ok" THEN ElFail(n.st)
    ELSE IF l.st # "ok" THEN ElFail(l.st)
    ELSE IF js.st # "ok" THEN ElFail(js.st)
    ELSE IF m.st # "ok" THEN ElFail(m.st)
    ELSE ElOk(n.v, JavascriptScope(js.v, Of(m.v)), m.rest)

\* decodeJavascriptScope after the read of the name
decodeJavascriptScopeNamed(n) ==
    decodeJavascriptScopeDoc(n, readInt32(n.rest), readString(readInt32(n.rest).rest),
                             decodeMap(readString(readInt32(n.rest).rest).rest, TRUE))

decodeJavascriptScope(rd) == decodeJavascriptScopeNamed(readCstring(rd))

\* The deferred recover of the Read entry points turns a panic into an error.
Recovered(r) == IF r.st = "panic" THEN RdFail("err") ELSE r

ReadMap(rd) == Recovered(decodeMap(rd, TRUE))

ReadMapNoNest(rd) == Recovered(decodeMap(rd, FALSE))

ReadSlice(rd) == Recovered(decodeSlice(rd, TRUE))

ReadSliceNoNest(rd) == Recovered(decodeSlice(rd, FALSE))


(***************************************************************************)
(* Struct projection (encode.go, encodeStruct).  A struct value is         *)
(* <<"struct", fields>>, each field [Name, Exported, Tag, Val]: Tag is the *)
(* value of the field's bson tag ("" when it has none), Val the field's    *)
(* value.                                                                  *)
(***************************************************************************)
Field(name, exported, tag, val) ==
    [Name |-> name, Exported |-> exported, Tag |-> tag, Val |-> val]

\* strings.Split(tag, ",")
RECURSIVE Split(_, _)
Split(s, sep) ==
    LET i == CHOOSE j \in 1..(Len(s) + 1) :
                 (j = Len(s) + 1 \/ s[j] = sep) /\ \A l \in 1..(j - 1) : s[l] # sep
    IN IF i = Len(s) + 1 THEN <<s>>
       ELSE <<SubSeq(s, 1, i - 1)>> \o Split(Drop(s, i), sep)

\* reflect's indirect() of a field: a nil pointer or interface leaves the zero
\* reflect.Value, of Kind Invalid.
indirectField(v) ==
    IF Kind(v) = "nil" \/ IsNilPtr(v) THEN <<"invalid", 0>> ELSE indirect(v)

isEmptyValue(val) ==
    LET k == Kind(val)
        v == Of(val)
    IN CASE k \in {"string", "String", "[]byte", "Binary", "[]interface{}", "Array",
                   "Slice", "ObjectId", "Javascript", "Symbol"} -> Len(v) = 0
         [] k = "Map" -> DOMAIN v = {}
         [] k \in {"bool", "Bool"} -> ~v
         [] k \in {"int", "int8", "int16", "int32", "int64", "Int32", "Int64",
                   "UTCDateTime", "Timestamp", "uint8"} -> v = 0
         [] k \in {"float64", "Float"} -> \A i \in 1..3 : v[i] = 0 /\ v[4] % 32768 = 0
         [] OTHER -> FALSE

\* the body of encodeStruct's loop for one field: "skip", "panic" (Interface()
\* of the zero Value), or the pair to encode
structField(f) ==
    LET fv == indirectField(f.Val)
        tok == Split(f.Tag, 44)
        name == IF f.Tag # <<>> /\ tok[1] # <<>> THEN tok[1] ELSE f.Name
    IN IF ~f.Exported THEN [do |-> "skip", pair |-> Pair(<<>>, Null)]
       ELSE IF f.Tag # <<>> /\ tok[1] = <<45>> THEN [do |-> "skip", pair |-> Pair(<<>>, Null)]
       ELSE IF f.Tag # <<>> /\ Len(tok) = 2
               /\ tok[2] = <<111, 109, 105, 116, 101, 109, 112, 116, 121>>
               /\ isEmptyValue(fv)
       THEN [do |-> "skip", pair |-> Pair(<<>>, Null)]
       ELSE IF Kind(fv) = "invalid" THEN [do |-> "panic", pair |-> Pair(<<>>, Null)]
       ELSE [do |-> "encode", pair |-> Pair(name, fv)]

\* the pairs encodeStruct hands to encodeVal, in field order, up to the first
\* field it panics on
RECURSIVE structPairs(_)
structPairs(fields) ==
    IF fields = <<>> THEN [panic |-> FALSE, pairs |-> <<>>]
    ELSE LET f == structField(Head(fields))
             rest == structPairs(Tail(fields))
         IN IF f.do = "panic" THEN [panic |-> TRUE, pairs |-> <<>>]
            ELSE IF f.do = "skip" THEN rest
            ELSE [panic |-> rest.panic, pairs |-> <<f.pair>> \o rest.pairs]

PanicB == [ok |-> FALSE, b |-> <<>>, path |-> <<>>, what |-> "panic"]

\* An encoding error met before the panicking field is returned; otherwise the
\* panic escapes EncodeStruct.
encodeStruct(p, s) ==
    IF Kind(s) # "struct" THEN {ErrB(p, "expected struct.")}
    ELSE LET sp == structPairs(Of(s))
         IN {IF r.ok THEN (IF sp.panic THEN PanicB ELSE OkB(FinishDoc(r.b))) ELSE r
             : r \in encodePairs(p, sp.pairs)}


(***************************************************************************)
(* The documents, host values and structs the behaviours start from.      *)
(***************************************************************************)
kA == <<97>>
kB == <<98>>
sFoo == <<102, 111, 111>>
sBar == <<98, 97, 114>>
oidZero == [i \in 1..12 |-> 0]
oidSeq == [i \in 1..12 |-> i]
\* the bits of float64(123.123), 0x405EC7DF3B645A1D
f123 == <<23069, 15204, 51167, 16478>>
\* the bits of float64(-0.5), 0xBFE0000000000000
fNegHalf == <<0, 0, 0, 49120>>

SeqsUpTo(S, n) == UNION {[1..k -> S] : k \in 0..n}

\* one or two values of each variant that holds no document
Scalars ==
    {Float(f123), Float(fNegHalf), String(sFoo), String(<<>>), Binary(<<0, 1>>),
     Undefined, ObjectId(oidZero), ObjectId(oidSeq), Bool(TRUE), Bool(FALSE),
     UTCDateTime(123), UTCDateTime(-1), Null, Regexp(sFoo, sBar),
     DBPointer(sFoo, oidSeq), Javascript(sFoo), Symbol(sFoo),
     JavascriptScope(sFoo, (sBar :> String(sFoo))), JavascriptScope(<<>>, EmptyMap),
     Int32(123), Int32(-2), Int32(2147483647), Timestamp(123), Int64(123),
     Int64(-65536), MinKey, MaxKey}

\* values of array elements and of the fields of embedded documents
ElemVals ==
    {Int32(1), String(kB), Null, Slice(<<Pair(kA, Int32(1))>>), (Map(kA :> Int32(1))),
     Array(<<>>), Array(<<Int64(7)>>)}

Arrays ==
    {Array(a) : a \in SeqsUpTo(ElemVals, MaxArr)}
    \cup {Array([i \in 1..n |-> Int32(i - 1)]) : n \in {MaxIdxArr - 1, MaxIdxArr}}

NestPairs == {Pair(k, v) : k \in {kA, kB}, v \in ElemVals}

EmbeddedSlices == {Slice(s) : s \in SeqsUpTo(NestPairs, MaxPairs)}

EmbeddedMaps == {Map(MapOfPairs(s)) : s \in SeqsUpTo(NestPairs, MaxPairs)}

TopVals == Scalars \cup Arrays \cup EmbeddedSlices \cup EmbeddedMaps

\* values of the fields of the documents of several fields
PairVals ==
    {Int32(123), String(sFoo), Bool(TRUE), Null, Slice(<<Pair(kA, Int64(123))>>),
     (Map(kB :> String(sBar))), Array(<<String(sFoo), String(sBar)>>), Array(<<>>)}

TopPairs == {Pair(k, v) : k \in {kA, kB}, v \in PairVals}

CanonicalSlices ==
    {Slice(<<Pair(kA, v)>>) : v \in TopVals}
    \cup {Slice(s) : s \in SeqsUpTo(TopPairs, MaxPairs)}

CanonicalMaps ==
    {Map(kA :> v) : v \in TopVals}
    \cup {Map(MapOfPairs(s)) : s \in SeqsUpTo(TopPairs, MaxPairs)}

\* host values: the types of the coercion table, pointers to them, and types
\* the table does not list
NativeVals ==
    {<<"nil", 0>>, <<"*", <<"nil", 0>>>>, <<"bool", TRUE>>, <<"bool", FALSE>>,
     <<"int8", 123>>, <<"int8", -128>>, <<"int16", -32768>>, <<"int32", 123>>,
     <<"int32", -2147483647>>, <<"int", 123>>, <<"int64", -123>>,
     <<"float64", f123>>, <<"string", sFoo>>, <<"[]byte", <<0, 255>>>>,
     <<"time.Time", 1500000>>, <<"time.Time", 123456789>>, <<"time.Time", -1500000>>,
     <<"*", <<"int8", 7>>>>, <<"float32", 0>>, <<"uint8", 1>>}

NativeDocs ==
    {Slice(<<Pair(kA, v)>>) : v \in NativeVals}
    \cup {Map(kA :> v) : v \in NativeVals}
    \cup {Slice(<<Pair(kA, v), Pair(kB, w)>>) :
            v \in {<<"int8", 123>>, <<"time.Time", 1500000>>}, w \in NativeVals}

\* documents with one value of a type the encoder has no rule for, inside
\* embedded documents and arrays
UnsupportedDocs ==
    {(Map(kA :> Map(kB :> <<"float32", 0>>))),
     Slice(<<Pair(kA, Slice(<<Pair(kB, <<"uint8", 1>>)>>))>>),
     (Map(kA :> Slice(<<Pair(kA, Int32(1)), Pair(kB, <<"float32", 0>>)>>))),
     (Map(kA :> Map(kB :> Map(kA :> <<"uint8", 1>>)))),
     Slice(<<Pair(kB, Array(<<Int32(1), <<"float32", 0>>>>))>>),
     (Map(kA :> Array(<<(Map(kB :> <<"float32", 0>>))>>))),
     Slice(<<Pair(kA, Array(<<Array(<<(<<"uint8", 1>>)>>)>>))>>)}

fldF == <<70>>
fldG == <<71>>
tagDash == <<45>>
tagN == <<110>>
tagNOmit == <<110, 44, 111, 109, 105, 116, 101, 109, 112, 116, 121>>
tagOmit == <<44, 111, 109, 105, 116, 101, 109, 112, 116, 121>>

FieldVals ==
    {<<"string", <<>>>>, <<"string", sFoo>>, <<"int", 0>>, <<"int32", 5>>,
     <<"bool", FALSE>>, <<"*", <<"nil", 0>>>>, <<"*", <<"int", 0>>>>,
     <<"[]interface{}", <<>>>>, <<"[]interface{}", <<(<<"int", 1>>)>>>>, (Map(EmptyMap))}

FieldsNamed(name) ==
    {Field(name, e, t, v) : e \in BOOLEAN,
                            t \in {<<>>, tagDash, tagN, tagNOmit, tagOmit},
                            v \in FieldVals}

Structs ==
    {<<"struct", <<f>>>> : f \in FieldsNamed(fldF)}
    \cup {<<"struct", <<f, g>>>> :
            f \in {x \in FieldsNamed(fldF) : x.Val \in {<<"string", <<>>>>, <<"string", sFoo>>}},
            g \in {x \in FieldsNamed(fldG) : x.Val \in {<<"string", <<>>>>, <<"int32", 5>>}}}

(***************************************************************************)
(* Encode, decode, encode again.                                           *)
(***************************************************************************)
Modes == {"Map", "MapNoNest", "Slice", "SliceNoNest"}

NoBytes == [st |-> "none", b |-> <<>>, path |-> <<>>, what |-> ""]
Returned(r) ==
    [st |-> IF r.ok THEN "ok" ELSE IF r.what = "panic" THEN "panic" ELSE "err",
     b |-> r.b, path |-> r.path, what |-> r.what]
NoDoc == [st |-> "none", v |-> 0, rest |-> <<>>]
NoReturn == [st |-> "none", found |-> FALSE, err |-> ""]

oid0 == [machine |-> <<0, 0, 0>>, pid |-> 0]

InitCodec ==
    /\ src \in CanonicalSlices \cup CanonicalMaps \cup NativeDocs \cup UnsupportedDocs
                 \cup Structs
    /\ bs = NoBytes
    /\ dst = [m \in Modes |-> NoDoc]
    /\ bs2 = NoBytes
    /\ path = <<>>
    /\ dest = <<>>
    /\ ret = <<>>
    /\ lastCount = 0
    /\ now = 0
    /\ oids = <<>>
    /\ call = <<>>
    /\ proc = oid0
    /\ stream = <<>>
    /\ got = <<>>

\* Map.Encode
MapEncode ==
    /\ Kind(src) = "Map"
    /\ bs.st = "none"
    /\ \E r \in encodeMap(<<>>, Of(src)) : bs' = Returned(r)
    /\ UNCHANGED <<src, dst, bs2, path, dest, ret, lastCount, now, oids, call, proc, stream, got>>

\* Slice.Encode
SliceEncode ==
    /\ Kind(src) = "Slice"
    /\ bs.st = "none"
    /\ \E r \in encodeSlice(<<>>, Of(src)) : bs' = Returned(r)
    /\ UNCHANGED <<src, dst, bs2, path, dest, ret, lastCount, now, oids, call, proc, stream, got>>

EncodeStruct ==
    /\ Kind(src) = "struct"
    /\ bs.st = "none"
    /\ \E r \in encodeStruct(<<>>, src) : bs' = Returned(r)
    /\ UNCHANGED <<src, dst, bs2, path, dest, ret, lastCount, now, oids, call, proc, stream, got>>

Decode(m, doc) ==
    /\ bs.st = "ok"
    /\ dst[m].st = "none"
    /\ dst' = [dst EXCEPT ![m] = doc]
    /\ UNCHANGED <<src, bs, bs2, path, dest, ret, lastCount, now, oids, call, proc, stream, got>>

\* BSON.Map
BSONMap == Decode("Map", ReadMap(bs.b))

\* BSON.MapNoNest
BSONMapNoNest == Decode("MapNoNest", ReadMapNoNest(bs.b))

\* BSON.Slice
BSONSlice == Decode("Slice", ReadSlice(bs.b))

\* BSON.SliceNoNest
BSONSliceNoNest == Decode("SliceNoNest", ReadSliceNoNest(bs.b))

\* Encode of the document decoded to the shape of src
EncodeAgain ==
    /\ Kind(src) \in {"Map", "Slice"}
    /\ dst[Kind(src)].st = "ok"
    /\ bs2.st = "none"
    /\ \E r \in IF Kind(src) = "Map" THEN encodeMap(<<>>, Of(dst["Map"].v))
                ELSE encodeSlice(<<>>, Of(dst["Slice"].v)) :
           bs2' = Returned(r)
    /\ UNCHANGED <<src, bs, dst, path, dest, ret, lastCount, now, oids, call, proc, stream, got>>

NextCodec ==
    \/ MapEncode
    \/ SliceEncode
    \/ EncodeStruct
    \/ BSONMap
    \/ BSONMapNoNest
    \/ BSONSlice
    \/ BSONSliceNoNest
    \/ EncodeAgain

Spec == InitCodec /\ [][NextCodec]_vars


(***************************************************************************)
(* Properties of the codec.                                                *)
(***************************************************************************)
\* v is built purely from canonical variants
RECURSIVE IsCanonical(_)
IsCanonical(v) ==
    /\ Kind(v) \in CanonicalKinds
    /\ Kind(v) = "Map" => \A k \in DOMAIN Of(v) : IsCanonical(Of(v)[k])
    /\ Kind(v) = "Slice" => \A i \in DOMAIN Of(v) : IsCanonical(Of(v)[i].Val)
    /\ Kind(v) = "Array" => \A i \in DOMAIN Of(v) : IsCanonical(Of(v)[i])
    /\ Kind(v) = "JavascriptScope" => IsCanonical(Map(Of(v).Scope))

\* every document embedded in v, v included, has the given container shape
RECURSIVE IsShaped(_, _)
IsShaped(v, shape) ==
    /\ Kind(v) \in {"Map", "Slice"} => Kind(v) = shape
    /\ Kind(v) = "Map" => \A k \in DOMAIN Of(v) : IsShaped(Of(v)[k], shape)
    /\ Kind(v) = "Slice" => \A i \in DOMAIN Of(v) : IsShaped(Of(v)[i].Val, shape)
    /\ Kind(v) = "Array" => \A i \in DOMAIN Of(v) : IsShaped(Of(v)[i], shape)

\* C1: Round-trip symmetry for the Map shape: for every Map document built
\* purely from canonical variants, Map.Encode succeeds and BSON.Map() on the
\* bytes returns a Map equal to the document.
C1_MapRoundTrip ==
    (IsShaped(src, "Map") /\ IsCanonical(src)) =>
        /\ bs.st \in {"none", "ok"}
        /\ dst["Map"].st # "none" => (dst["Map"].st = "ok" /\ dst["Map"].v = src)

\* C2: Round-trip symmetry for the Slice shape: for every Slice document built
\* purely from canonical variants, Slice.Encode succeeds and BSON.Slice() on
\* the bytes returns a Slice equal to the document, pairs in the same order.
C2_SliceRoundTrip ==
    (IsShaped(src, "Slice") /\ IsCanonical(src)) =>
        /\ bs.st \in {"none", "ok"}
        /\ dst["Slice"].st # "none" => (dst["Slice"].st = "ok" /\ dst["Slice"].v = src)

\* C3: Canonical documents round-trip byte-for-byte: with b the encoding of
\* a canonical document of either shape, decoding b to the same shape and
\* encoding the result again yields exactly b.
C3_ByteRoundTrip ==
    (Kind(src) \in {"Map", "Slice"} /\ IsShaped(src, Kind(src)) /\ IsCanonical(src)
        /\ bs2.st # "none") =>
        (bs2.st = "ok" /\ bs2.b = bs.b)

\* The documented coercion table (doc.go, "Encoding Coercions").
DocumentedKinds ==
    {"nil", "bool", "int", "int8", "int16", "int32", "int64", "float64", "string",
     "time.Time", "[]byte"}

\* milliseconds since the epoch of a time given in nanoseconds, truncated
\* toward zero
Millis(nanos) == IF nanos >= 0 THEN nanos \div 1000000 ELSE -((-nanos) \div 1000000)

Coerced(v) ==
    LET k == Kind(v)
        x == Of(v)
    IN CASE k = "nil" \/ IsNilPtr(v) -> Null
         [] k = "bool" -> Bool(x)
         [] k \in {"int8", "int16", "int32"} -> Int32(x)
         [] k \in {"int", "int64"} -> Int64(x)
         [] k = "float64" -> Float(x)
         [] k = "string" -> String(x)
         [] k = "[]byte" -> Binary(x)
         [] k = "time.Time" -> UTCDateTime(Millis(x))

\* the fields of a document as a function from keys to values
FieldsOf(d) == IF Kind(d) = "Map" THEN Of(d) ELSE MapOfPairs(Of(d))

\* every field of the document holds a host value of the coercion table
IsNativeDoc(d) ==
    /\ Kind(d) \in {"Map", "Slice"}
    /\ DOMAIN Of(d) # {}
    /\ \A k \in DOMAIN FieldsOf(d) :
           Kind(FieldsOf(d)[k]) \in DocumentedKinds \/ IsNilPtr(FieldsOf(d)[k])
    /\ Kind(d) = "Slice" => \A i \in DOMAIN Of(d) :
           Kind(Of(d)[i].Val) \in DocumentedKinds \/ IsNilPtr(Of(d)[i].Val)

\* C4: Encode-side coercion is fixed: encoding a document whose fields hold
\* host-native values and decoding it yields, per field, nil or a nil pointer
\* as Null, bool as Bool, int8/int16/int32 as Int32 and int/int64 as Int64 of
\* the same value, float64 as Float, string as String, []byte as Binary and
\* time.Time as the UTCDateTime of its milliseconds since the epoch
\* (nanoseconds / 10^6, truncated toward zero); a Slice keeps its order.
C4_EncodeCoercion ==
    IsNativeDoc(src) =>
        LET exp == [k \in DOMAIN FieldsOf(src) |-> Coerced(FieldsOf(src)[k])]
        IN /\ bs.st \in {"none", "ok"}
           /\ dst["Map"].st # "none" =>
                  (dst["Map"].st = "ok" /\ Of(dst["Map"].v) = exp)
           /\ dst["Slice"].st # "none" =>
                  /\ dst["Slice"].st = "ok"
                  /\ MapOfPairs(Of(dst["Slice"].v)) = exp
                  /\ Len(Of(dst["Slice"].v)) = Cardinality(DOMAIN exp)
                  /\ Kind(src) = "Slice" =>
                         Of(dst["Slice"].v)
                             = [i \in DOMAIN Of(src) |->
                                    Pair(Of(src)[i].Key, Coerced(Of(src)[i].Val))]

\* a document of two host fields, a negative time.Time among them, was encoded
\* and decoded to both shapes
C4_Witness ==
    /\ src = Slice(<<Pair(kA, <<"int8", 123>>), Pair(kB, <<"time.Time", -1500000>>)>>)
    /\ dst["Map"].st = "ok"
    /\ dst["Slice"].st = "ok"

\* the successful encodings of an embedded document
Encodings(d) ==
    {r.b : r \in {q \in (IF Kind(d) = "Map" THEN encodeMap(<<>>, Of(d))
                         ELSE encodeSlice(<<>>, Of(d))) : q.ok}}

\* a canonical document whose top-level fields are scalars and embedded documents
IsFlatOrEmbedded(d) ==
    /\ Kind(d) \in {"Map", "Slice"}
    /\ IsCanonical(d)
    /\ \A k \in DOMAIN FieldsOf(d) : Kind(FieldsOf(d)[k]) # "Array"
    /\ Kind(d) = "Slice" => \A i \in DOMAIN Of(d) : Kind(Of(d)[i].Val) # "Array"

\* what a no-nest decode must hold for a field: the nested decode's value, or,
\* for an embedded document, raw bytes that are an encoding of the source's
\* nested document and decode to the nested decode's value
NoNestOf(raw, nested, srcv, shape) ==
    IF Kind(nested) \in {"Map", "Slice"}
    THEN /\ Kind(raw) = "BSON"
         /\ Of(raw) \in Encodings(srcv)
         /\ (IF shape = "Map" THEN decodeMap(Of(raw), TRUE) ELSE decodeSlice(Of(raw), TRUE))
                = RdOk(nested, <<>>)
    ELSE raw = nested

\* C5: No-nest decode equivalence: for a document of scalar and
\* embedded-document top-level fields, MapNoNest / SliceNoNest returns the
\* container Map() / Slice() returns, except that each embedded document is
\* the raw BSON of that nested document, length prefix included.
C5_NoNestEquivalence ==
    IsFlatOrEmbedded(src) =>
        /\ (dst["Map"].st # "none" /\ dst["MapNoNest"].st # "none") =>
               /\ dst["Map"].st = "ok" /\ dst["MapNoNest"].st = "ok"
               /\ DOMAIN Of(dst["MapNoNest"].v) = DOMAIN Of(dst["Map"].v)
               /\ \A k \in DOMAIN Of(dst["Map"].v) :
                      NoNestOf(Of(dst["MapNoNest"].v)[k], Of(dst["Map"].v)[k],
                               FieldsOf(src)[k], "Map")
        /\ (dst["Slice"].st # "none" /\ dst["SliceNoNest"].st # "none") =>
               /\ dst["Slice"].st = "ok" /\ dst["SliceNoNest"].st = "ok"
               /\ DOMAIN Of(dst["SliceNoNest"].v) = DOMAIN Of(dst["Slice"].v)
               /\ \A i \in DOMAIN Of(dst["Slice"].v) :
                      /\ Of(dst["SliceNoNest"].v)[i].Key = Of(dst["Slice"].v)[i].Key
                      /\ NoNestOf(Of(dst["SliceNoNest"].v)[i].Val, Of(dst["Slice"].v)[i].Val,
                                  IF Kind(src) = "Slice" THEN Of(src)[i].Val
                                  ELSE Of(src)[Of(dst["Slice"].v)[i].Key],
                                  "Slice")

\* a scalar field and a nested-document field were decoded in both modes
C5_Witness ==
    /\ src = Slice(<<Pair(kA, String(sFoo)), Pair(kB, Slice(<<Pair(kA, Int64(123))>>))>>)
    /\ dst["Slice"].st = "ok"
    /\ dst["SliceNoNest"].st = "ok"
    /\ Kind(Of(dst["SliceNoNest"].v)[2].Val) = "BSON"

\* the empty values of the struct tag documentation: false, 0, a nil pointer or
\* interface, an array, slice, map or string of length zero
DocumentedEmpty(v) ==
    \/ Kind(v) = "nil"
    \/ IsNilPtr(v)
    \/ Kind(v) = "bool" /\ ~Of(v)
    \/ Kind(v) \in {"int", "int8", "int16", "int32", "int64"} /\ Of(v) = 0
    \/ Kind(v) \in {"string", "[]interface{}", "[]byte"} /\ Of(v) = <<>>
    \/ Kind(v) = "Map" /\ DOMAIN Of(v) = {}

HasOmitEmpty(tag) == tag \in {tagNOmit, tagOmit}

TagName(tag) == IF tag \in {tagN, tagNOmit} THEN tagN ELSE IF tag = tagDash THEN tagDash ELSE <<>>

\* the coerced value of a struct field
RECURSIVE CoercedField(_)
CoercedField(v) ==
    CASE Kind(v) = "*" /\ ~IsNilPtr(v) -> CoercedField(Of(v))
      [] Kind(v) = "[]interface{}" -> Array([i \in DOMAIN Of(v) |-> CoercedField(Of(v)[i])])
      [] Kind(v) \in CanonicalKinds -> v
      [] OTHER -> Coerced(v)

\* the pairs the struct tag documentation projects a struct to
RECURSIVE Projection(_)
Projection(fields) ==
    IF fields = <<>> THEN <<>>
    ELSE LET f == Head(fields)
         IN (IF f.Exported /\ TagName(f.Tag) # tagDash
                /\ ~(HasOmitEmpty(f.Tag) /\ DocumentedEmpty(f.Val))
             THEN <<Pair(IF TagName(f.Tag) # <<>> THEN TagName(f.Tag) ELSE f.Name,
                         CoercedField(f.Val))>>
             ELSE <<>>) \o Projection(Tail(fields))

\* C6: Struct projection: EncodeStruct followed by BSON.Map() yields one entry
\* per field that is exported, not tagged "-" and not (tagged omitempty while
\* empty), keyed by the tag's name when it gives one and by the field's name
\* otherwise, holding the coerced field value.
C6_StructProjection ==
    Kind(src) = "struct" =>
        /\ bs.st \in {"none", "ok"}
        /\ dst["Map"].st # "none" =>
               /\ dst["Map"].st = "ok"
               /\ Of(dst["Map"].v) = MapOfPairs(Projection(Of(src)))


(***************************************************************************)
(* Reach (coercion.go).                                                    *)
(*                                                                         *)
(* The dst argument is the untyped nil, or a pointer to a variable; the    *)
(* variable is <<type, payload>>.  A variable of type interface{} or       *)
(* *int32 holds <<"nil", 0>> or an inner variable.  A time.Time payload is *)
(* its nanoseconds since the epoch.                                        *)
(***************************************************************************)
NilDst == <<"nil", 0>>
NilValue == <<"nil", 0>>

sPattern == <<80, 97, 116, 116, 101, 114, 110>>
sOptions == <<79, 112, 116, 105, 111, 110, 115>>
sName == <<78, 97, 109, 101>>
sObjectId == <<79, 98, 106, 101, 99, 116, 73, 100>>
sJavascript == <<74, 97, 118, 97, 115, 99, 114, 105, 112, 116>>
sScope == <<83, 99, 111, 112, 101>>
\* "Code", a name reach has no case for
sCode == <<67, 111, 100, 101>>

\* the index of the first pair of the given key, 0 when there is none
FirstKey(s, name) ==
    LET idx == {i \in DOMAIN s : s[i].Key = name}
    IN IF idx = {} THEN 0 ELSE CHOOSE i \in idx : \A j \in idx : i <= j

RECURSIVE reach(_, _)
reach(cur, dot) ==
    IF dot = <<>> THEN cur
    ELSE LET name == Head(dot)
             curt == Of(cur)
         IN CASE Kind(cur) \in {"Float", "String", "Array", "Binary", "Undefined", "ObjectId",
                                "Bool", "UTCDateTime", "Null", "Javascript", "Symbol", "Int32",
                                "Timestamp", "Int64", "MinKey", "MaxKey"} -> NilValue
              [] Kind(cur) = "Map" ->
                     IF name \in DOMAIN curt THEN reach(curt[name], Tail(dot)) ELSE NilValue
              [] Kind(cur) = "Slice" ->
                     IF FirstKey(curt, name) # 0
                     THEN reach(<<"Pair", curt[FirstKey(curt, name)]>>, Tail(dot))
                     ELSE NilValue
              [] Kind(cur) = "Regexp" ->
                     IF name = sPattern THEN reach(<<"string", curt.Pattern>>, Tail(dot))
                     ELSE IF name = sOptions THEN reach(<<"string", curt.Options>>, Tail(dot))
                     ELSE NilValue
              [] Kind(cur) = "DBPointer" ->
                     IF name = sName THEN reach(<<"string", curt.Name>>, Tail(dot))
                     ELSE IF name = sObjectId THEN reach(ObjectId(curt.ObjectId), Tail(dot))
                     ELSE NilValue
              [] Kind(cur) = "JavascriptScope" ->
                     IF name = sJavascript THEN reach(<<"string", curt.Javascript>>, Tail(dot))
                     ELSE IF name = sScope THEN reach(Map(curt.Scope), Tail(dot))
                     ELSE NilValue
              [] OTHER -> NilValue

\* the variable is a nil interface{} or a nil pointer
IsHolder(d) == Kind(d) \in {"interface{}", "*int32"}

\* the variable after indirectAlloc: a nil interface{} is set to an empty Map,
\* a nil pointer to a new zero value
indirectAlloc(d) ==
    IF IsHolder(d) /\ Of(d) = NilValue
    THEN IF Kind(d) = "interface{}" THEN <<Kind(d), Map(EmptyMap)>>
         ELSE <<Kind(d), <<"int32", 0>>>>
    ELSE d

\* the variable indirectAlloc returns a reflect.Value of
Target(d) == IF IsHolder(d) THEN Of(indirectAlloc(d)) ELSE d

\* CanSet of that reflect.Value: the Elem of an interface is not addressable
Settable(d) == Kind(d) # "interface{}"

\* reflect.Kind of a Go type
KindOf(type) ==
    CASE type \in {"[]byte", "Slice", "Array", "ObjectId", "Binary"} -> "slice"
      [] type = "Map" -> "map"
      [] type \in {"time.Time", "Regexp", "DBPointer", "JavascriptScope"} -> "struct"
      [] type = "Float" -> "float64"
      [] type \in {"String", "Javascript", "Symbol"} -> "string"
      [] type = "Bool" -> "bool"
      [] type = "Int32" -> "int32"
      [] type \in {"Int64", "UTCDateTime", "Timestamp"} -> "int64"
      [] OTHER -> type

\* the variable with its target set to x
SetTarget(d, x) ==
    IF IsHolder(d) THEN <<Kind(d), <<Kind(Target(d)), x>>>> ELSE <<Kind(d), x>>

Assigned(d) == [st |-> "ok", found |-> TRUE, err |-> "", dest |-> d]
assignError(d) == [st |-> "ok", found |-> FALSE, err |-> "cannot coerce", dest |-> d]
AssignPanic(d) == [st |-> "panic", found |-> FALSE, err |-> "", dest |-> d]

\* dstrv.Set / SetInt / SetString / ... : panics on a value that cannot be set
SetOrPanic(d, x) == IF Settable(d) THEN Assigned(SetTarget(d, x)) ELSE AssignPanic(d)

\* the cases "if dstrv.Kind() != K { return false, assignError }; dstrv.SetK(v)"
assignKind(d, kinds, x) ==
    IF KindOf(Kind(Target(d))) \notin kinds THEN assignError(d) ELSE SetOrPanic(d, x)

\* the cases "switch dstrv.Interface().(type) { case T: dstrv.Set(v); default: error }"
assignType(d, type, x) ==
    IF Kind(Target(d)) # type THEN assignError(d) ELSE SetOrPanic(d, x)

\* Binary and ObjectId: Elem() of a reflect.Value that is neither interface nor
\* pointer panics, and so does SetBytes on a slice whose elements are not bytes
assignBytes(d, x) ==
    IF KindOf(Kind(Target(d))) # "slice" THEN AssignPanic(d)
    ELSE IF Kind(Target(d)) \in {"[]byte", "ObjectId", "Binary"} THEN SetOrPanic(d, x)
    ELSE AssignPanic(d)

\* UTCDateTime and Timestamp as milliseconds: time.Unix(0, int64(srct)*1e6)
assignTimeMillis(d, x) ==
    IF Kind(Target(d)) = "time.Time" THEN SetOrPanic(d, x * 1000000)
    ELSE assignKind(d, {"int64"}, x)

\* UTCDateTime and Timestamp: time.Unix(0, int64(srct)*1e3) into a time.Time,
\* the integer into an int64
assignTime(d, x) ==
    IF Kind(Target(d)) = "time.Time" THEN SetOrPanic(d, x * 1000)
    ELSE assignKind(d, {"int64"}, x)

\* Int32 into a variable of kind int32 or int64
\* Int32 into a variable of kind int32 only
assignInt32Narrow(d, x) == assignKind(d, {"int32"}, x)

assignInt32(d, x) == assignKind(d, {"int32", "int64"}, x)

assign(dst0, src0) ==
    LET d == indirectAlloc(dst0)
        x == Of(src0)
    IN CASE Kind(src0) = "Float" -> assignKind(d, {"float64"}, x)
         [] Kind(src0) = "String" -> assignKind(d, {"string"}, x)
         [] Kind(src0) \in {"Map", "Slice", "Array", "Regexp", "DBPointer", "JavascriptScope"} ->
                assignType(d, Kind(src0), x)
         [] Kind(src0) \in {"Binary", "ObjectId"} -> assignBytes(d, x)
         [] Kind(src0) = "Bool" -> assignKind(d, {"bool"}, x)
         [] Kind(src0) \in {"UTCDateTime", "Timestamp"} -> assignTime(d, x)
         [] Kind(src0) \in {"Javascript", "Symbol"} -> assignKind(d, {"string"}, x)
         [] Kind(src0) = "Int32" -> assignInt32(d, x)
         [] Kind(src0) = "Int64" -> assignKind(d, {"int64"}, x)
         [] OTHER -> Assigned(d)

\* Reach without the test of reach's result for nil
ReachUnchecked(this, dst0, dot) ==
    IF dst0 = NilDst
    THEN [st |-> "ok", found |-> FALSE, err |-> "dst must not be nil.", dest |-> dst0]
    ELSE assign(dst0, reach(this, dot))

\* Map.Reach and Slice.Reach
Reach(this, dst0, dot) ==
    IF dst0 = NilDst
    THEN [st |-> "ok", found |-> FALSE, err |-> "dst must not be nil.", dest |-> dst0]
    ELSE IF Kind(reach(this, dot)) = "nil"
         THEN [st |-> "ok", found |-> FALSE, err |-> "", dest |-> dst0]
         ELSE assign(dst0, reach(this, dot))

(***************************************************************************)
(* Map.Reach and Slice.Reach on the two shapes of one document.            *)
(***************************************************************************)
f0 == <<0, 0, 0, 0>>

ReachLeaves ==
    {Float(f123), String(sFoo), Binary(<<0, 1>>), Undefined, ObjectId(oidSeq), Bool(TRUE),
     UTCDateTime(123), Null, Regexp(sFoo, sBar), DBPointer(sFoo, oidSeq), Javascript(sFoo),
     JavascriptScope(sFoo, (sBar :> String(sFoo))), Int32(7), Timestamp(123), Int64(123),
     Array(<<Int32(1)>>), UTCDateTime(-2), Timestamp(1500000)}

\* Slice documents of distinct keys
ReachDocs ==
    {Slice(<<Pair(kA, Map(kB :> Int32(n)))>>) : n \in {7, -2, 2147483647}}
    \cup {Slice(<<Pair(kA, Slice(<<Pair(kB, Int32(n))>>))>>) : n \in {7, -2}}
    \cup {Slice(<<Pair(kA, v)>>) : v \in ReachLeaves}
    \cup {Slice(<<Pair(kA, Slice(<<Pair(kB, String(sFoo))>>)), Pair(kB, Int64(123))>>),
          Slice(<<>>)}

ReachPaths ==
    {<<>>, <<kA>>, <<kB>>, <<kA, kB>>, <<kA, kA>>, <<kA, kB, kA>>, <<kA, sPattern>>,
     <<kA, sObjectId>>, <<kA, sScope>>, <<kA, sScope, sBar>>, <<kA, sOptions>>,
     <<kA, sName>>, <<kA, sJavascript>>, <<kA, sCode>>}

ReachDests ==
    {NilDst, <<"int32", 0>>, <<"int32", 5>>, <<"int64", 0>>, <<"bool", FALSE>>,
     <<"bool", TRUE>>, <<"string", <<>>>>, <<"float64", f0>>, <<"[]byte", <<>>>>,
     <<"time.Time", 0>>, <<"Map", EmptyMap>>, <<"Slice", <<>>>>,
     <<"interface{}", NilValue>>, <<"*int32", NilValue>>}

\* src.Slice is the Slice document, src.Map the Map of the same keys and
\* values; dest.init is the destination variable before the call, dest.Map
\* and dest.Slice are that variable after Map.Reach and after Slice.Reach
InitReach ==
    /\ \E d \in ReachDocs : src = [Slice |-> d, Map |-> Map(MapOfPairs(Of(d)))]
    /\ path \in ReachPaths
    /\ \E d \in ReachDests : dest = [init |-> d, Map |-> d, Slice |-> d]
    /\ ret = [Map |-> NoReturn, Slice |-> NoReturn]
    /\ bs = NoBytes
    /\ dst = [m \in Modes |-> NoDoc]
    /\ bs2 = NoBytes
    /\ lastCount = 0
    /\ now = 0
    /\ oids = <<>>
    /\ call = <<>>
    /\ proc = oid0
    /\ stream = <<>>
    /\ got = <<>>

ReachCall(shape) ==
    /\ ret[shape].st = "none"
    /\ LET r == Reach(src[shape], dest.init, path)
       IN /\ ret' = [ret EXCEPT ![shape] = [st |-> r.st, found |-> r.found, err |-> r.err]]
          /\ dest' = [dest EXCEPT ![shape] = r.dest]
    /\ UNCHANGED <<src, bs, dst, bs2, path, lastCount, now, oids, call, proc, stream, got>>

\* Map.Reach
MapReach == ReachCall("Map")

\* Slice.Reach
SliceReach == ReachCall("Slice")

NextReach ==
    \/ MapReach
    \/ SliceReach

SpecReach == InitReach /\ [][NextReach]_vars

(***************************************************************************)
(* Properties of Reach.                                                    *)
(***************************************************************************)
Done(shape) == ret[shape].st # "none"
FoundNoError == [st |-> "ok", found |-> TRUE, err |-> ""]
NotFoundNoError == [st |-> "ok", found |-> FALSE, err |-> ""]

\* the document is {a: {b: Int32(n)}} and the path is [a, b]
IsNestedInt32 ==
    /\ path = <<kA, kB>>
    /\ DOMAIN Of(src.Map) = {kA}
    /\ Kind(Of(src.Map)[kA]) = "Map"
    /\ DOMAIN Of(Of(src.Map)[kA]) = {kB}
    /\ Kind(Of(Of(src.Map)[kA])[kB]) = "Int32"

NestedInt32 == Of(Of(Of(src.Map)[kA])[kB])

\* C7: Reach coercion of Int32: on the Map document {a: {b: Int32(n)}},
\* Map.Reach with path [a, b] into a 32-bit integer destination returns
\* (true, no error) and sets the destination to n; into a 64-bit integer
\* destination the same; into a boolean destination it returns an error and
\* leaves the destination unchanged.
C7_ReachInt32 ==
    (IsNestedInt32 /\ Done("Map")) =>
        /\ Kind(dest.init) \in {"int32", "int64"} =>
               /\ ret.Map = FoundNoError
               /\ dest.Map = <<Kind(dest.init), NestedInt32>>
        /\ Kind(dest.init) = "bool" =>
               /\ ret.Map.st = "ok"
               /\ ret.Map.err # ""
               /\ dest.Map = dest.init

\* Int32(2147483647) nested under [a, b] was reached into an int64 variable
C7_Witness ==
    /\ IsNestedInt32
    /\ NestedInt32 = 2147483647
    /\ dest.init = <<"int64", 0>>
    /\ ret.Map.found

\* C8: Slice.Reach is the same as Map.Reach: for a Slice document of
\* distinct keys whose nested documents are Slices, a path of at least one
\* name and any destination, Slice.Reach returns the outcome and leaves the
\* destination holding the value that Map.Reach does on the Map document of
\* the same keys and values.
C8_SliceReachAsMapReach ==
    (IsShaped(src.Slice, "Slice") /\ path # <<>> /\ Done("Map") /\ Done("Slice")) =>
        /\ ret.Slice = ret.Map
        /\ dest.Slice = dest.Map

\* the sub-fields a value has: the keys of a container, the fields of the
\* fixed-shape variants, none for a scalar
FieldsIn(v) ==
    CASE Kind(v) = "Map" -> Of(v)
      [] Kind(v) = "Slice" -> MapOfPairs(Of(v))
      [] Kind(v) = "Regexp" ->
             (sPattern :> <<"string", Of(v).Pattern>>) @@ (sOptions :> <<"string", Of(v).Options>>)
      [] Kind(v) = "DBPointer" ->
             (sName :> <<"string", Of(v).Name>>) @@ (sObjectId :> ObjectId(Of(v).ObjectId))
      [] Kind(v) = "JavascriptScope" ->
             (sJavascript :> <<"string", Of(v).Javascript>>) @@ (sScope :> Map(Of(v).Scope))
      [] OTHER -> EmptyMap

\* the path names a field the current container does not have, or descends
\* into a scalar
RECURSIVE Missing(_, _)
Missing(cur, dot) ==
    /\ dot # <<>>
    /\ \/ Head(dot) \notin DOMAIN FieldsIn(cur)
       \/ Missing(FieldsIn(cur)[Head(dot)], Tail(dot))

\* the value at the end of a path that is not missing
RECURSIVE ValueAt(_, _)
ValueAt(cur, dot) == IF dot = <<>> THEN cur ELSE ValueAt(FieldsIn(cur)[Head(dot)], Tail(dot))

\* the documented coercions of Reach
Coercible(kind, type) ==
    CASE kind = "Float" -> type = "float64"
      [] kind \in {"String", "Javascript", "Symbol"} -> type = "string"
      [] kind \in {"Binary", "ObjectId"} -> type = "[]byte"
      [] kind = "Bool" -> type = "bool"
      [] kind \in {"UTCDateTime", "Timestamp"} -> type \in {"int64", "time.Time"}
      [] kind = "Int32" -> type \in {"int32", "int64"}
      [] kind = "Int64" -> type = "int64"
      [] kind \in {"Undefined", "Null", "MinKey", "MaxKey"} -> TRUE
      [] OTHER -> type = kind

\* the type a destination variable takes a value as
TypeOfDest(d) ==
    IF Kind(d) = "interface{}" THEN "Map" ELSE IF Kind(d) = "*int32" THEN "int32" ELSE Kind(d)

TableKinds ==
    {"Float", "String", "Binary", "ObjectId", "Bool", "UTCDateTime", "Javascript",
     "Symbol", "Int32", "Timestamp", "Int64"}

\* Map.Reach found a value of a type of the table for a destination the
\* table does not pair it with
IsMismatch ==
    /\ dest.init # NilDst
    /\ ~Missing(src.Map, path)
    /\ Kind(ValueAt(src.Map, path)) \in TableKinds
    /\ ~Coercible(Kind(ValueAt(src.Map, path)), TypeOfDest(dest.init))

\* C17: Reach type mismatches are errors: when the value found and the type
\* of the destination are not paired in the coercion table (Int64,
\* UTCDateTime or Timestamp for a 32-bit integer; Binary or ObjectId for an
\* integer, a string or a slice of other elements than bytes; ...), Reach
\* returns (false, a coercion error), does not crash and leaves the
\* destination as it was.
C17_ReachMismatch ==
    (Done("Map") /\ IsMismatch) =>
        /\ ret.Map = [st |-> "ok", found |-> FALSE, err |-> "cannot coerce"]
        /\ dest.Map = dest.init

\* Map.Reach found a UTCDateTime or a Timestamp
IsTimeLeaf ==
    /\ ~Missing(src.Map, path)
    /\ Kind(ValueAt(src.Map, path)) \in {"UTCDateTime", "Timestamp"}

FieldNamed(v, name) ==
    CASE Kind(v) = "Regexp" /\ name = sPattern -> <<"string", Of(v).Pattern>>
      [] Kind(v) = "Regexp" /\ name = sOptions -> <<"string", Of(v).Options>>
      [] Kind(v) = "DBPointer" /\ name = sName -> <<"string", Of(v).Name>>
      [] Kind(v) = "DBPointer" /\ name = sObjectId -> <<"[]byte", Of(v).ObjectId>>
      [] Kind(v) = "JavascriptScope" /\ name = sCode -> <<"string", Of(v).Javascript>>
      [] Kind(v) = "JavascriptScope" /\ name = sScope -> <<"Map", Of(v).Scope>>
      [] OTHER -> NilValue

\* C24: Reach into fixed-shape variants: on a Regexp the names "Pattern" and
\* "Options" select that string, on a DBPointer "Name" and "ObjectId", on a
\* JavascriptScope "Code" and "Scope"; a path that ends on such a field, with
\* a destination of the field's type (string, byte sequence, Map), returns
\* (true, nil) and sets the destination to the field's value.
C24_ReachFixedShape ==
    (/\ Len(path) = 2
     /\ path[1] = kA
     /\ kA \in DOMAIN Of(src.Map)
     /\ Done("Map")) =>
        LET f == FieldNamed(Of(src.Map)[kA], path[2])
        IN (f # NilValue /\ Kind(dest.init) = Kind(f)) =>
               /\ ret.Map = FoundNoError
               /\ dest.Map = f

(***************************************************************************)
(* NewObjectId (misc.go).                                                  *)
(*                                                                         *)
(* A call reads the clock first and bumps the shared counter last; calls   *)
(* of several goroutines interleave between the two.  call[g] is the       *)
(* position of goroutine g; oids holds the identifiers returned, in the    *)
(* order of the counter's increments.                                      *)
(***************************************************************************)
Goroutines == {1, 2}

\* the remainder of Go's % on int32, which has the sign of the dividend
Int32Rem(a, b) == LET r == a % b IN IF a >= 0 \/ r = 0 THEN r ELSE r - b

\* atomic.LoadInt32(&lastCount): the counter read but not bumped
LoadInt32(x) == x

\* atomic.AddInt32(&lastCount, 1), wrapping at the width of int32
AddInt32(x) == IF x = 2147483647 THEN -2147483647 - 1 ELSE x + 1

\* binary.Write(buf, binary.BigEndian, int32(t))
BigEndianInt32(t) ==
    <<(t \div 16777216) % 256, (t \div 65536) % 256, (t \div 256) % 256, t % 256>>

\* binary.Write(buf, binary.BigEndian, int16(pid))
BigEndianInt16(pid) == <<(pid \div 256) % 256, pid % 256>>

\* cntbuf[1:] of binary.BigEndian.PutUint32(cntbuf, uint32(cnt))
CounterBytes(cnt) == <<(cnt \div 65536) % 256, (cnt \div 256) % 256, cnt % 256>>

\* the counter field of the identifier made after the increment to lc
CounterOf(lc) == Int32Rem(lc, 16777215)

NewObjectIdBytes(t, p, lc) ==
    BigEndianInt32(t) \o p.machine \o BigEndianInt16(p.pid) \o CounterBytes(CounterOf(lc))

Idle == [pc |-> "idle", t |-> 0, seen |-> 0, n |-> 0]

CallsStarted == call[1].n + call[2].n

InitOid ==
    /\ lastCount \in {0, 254, 16777213, 2147483646, -2147483522, -2}
    /\ now = 1700000255
    /\ oids = <<>>
    /\ call = [g \in Goroutines |-> Idle]
    /\ proc \in [machine : {<<0, 0, 0>>, <<171, 205, 239>>}, pid : {4242, 70000},
                 hostname : {"ok", "err"}]
    /\ src = Null
    /\ bs = NoBytes
    /\ dst = [m \in Modes |-> NoDoc]
    /\ bs2 = NoBytes
    /\ path = <<>>
    /\ dest = <<>>
    /\ ret = <<>>
    /\ stream = <<>>
    /\ got = <<>>

\* NewObjectId up to os.Hostname: the clock is read, and the call returns an
\* error when the host name cannot be had
Stamp(g) ==
    /\ call[g].pc # "stamped"
    /\ CallsStarted < MaxCalls
    /\ call' = [call EXCEPT ![g] = [pc |-> IF proc.hostname = "ok" THEN "stamped" ELSE "failed",
                                    t |-> now, seen |-> Len(oids), n |-> call[g].n + 1]]
    /\ UNCHANGED <<src, bs, dst, bs2, path, dest, ret, lastCount, now, oids, proc, stream, got>>

\* NewObjectId from the machine id to the return: the counter is bumped and
\* the identifier assembled
Count(g) ==
    /\ call[g].pc = "stamped"
    /\ lastCount' = AddInt32(lastCount)
    /\ oids' = Append(oids, [id |-> NewObjectIdBytes(call[g].t, proc, lastCount'),
                             g |-> g, t |-> call[g].t, cnt |-> CounterOf(lastCount'),
                             seen |-> call[g].seen,
                             added |-> lastCount'])
    /\ call' = [call EXCEPT ![g].pc = "returned"]
    /\ UNCHANGED <<src, bs, dst, bs2, path, dest, ret, now, proc, stream, got>>

\* a second passes
Tick ==
    /\ now < 1700000255 + MaxTicks
    /\ now' = now + 1
    /\ UNCHANGED <<src, bs, dst, bs2, path, dest, ret, lastCount, oids, call, proc, stream, got>>

NextOid ==
    \/ \E g \in Goroutines : Stamp(g)
    \/ \E g \in Goroutines : Count(g)
    \/ Tick

SpecOid == InitOid /\ [][NextOid]_vars

(***************************************************************************)
(* Properties of NewObjectId.                                              *)
(***************************************************************************)
\* bytes.Compare(a, b) < 0 on byte strings of one length
BytesLess(a, b) ==
    \E i \in DOMAIN a :
        /\ a[i] < b[i]
        /\ \A j \in 1..(i - 1) : a[j] = b[j]

\* the counter field was reset to zero after identifier i, up to identifier j
WrappedBetween(i, j) == \E k \in (i + 1)..j : oids[k].cnt = 0

\* C10: Identifier ordering: every identifier NewObjectId returns is exactly
\* 12 bytes, and of two identifiers of one process, the second from a call
\* begun after the first was returned, the second is strictly greater under
\* byte-lexicographic comparison unless both were made in the same second
\* and the counter wrapped between them.
C10_IdentifierOrdering ==
    /\ \A i \in DOMAIN oids :
           /\ Len(oids[i].id) = 12
           /\ \A b \in DOMAIN oids[i].id : oids[i].id[b] \in 0..255
    /\ \A i \in DOMAIN oids : \A j \in DOMAIN oids :
           (i < j /\ oids[j].seen >= i) =>
               \/ BytesLess(oids[i].id, oids[j].id)
               \/ (oids[i].t = oids[j].t /\ WrappedBetween(i, j))

\* one goroutine made three identifiers back to back within one second,
\* the counter field rising from 0x0000FF without wrapping
C10_Witness ==
    /\ Len(oids) = 3
    /\ \A i \in 1..3 : oids[i].g = 1 /\ oids[i].t = oids[1].t
    /\ oids[1].cnt = 255
    /\ ~WrappedBetween(1, 3)
    /\ BytesLess(oids[1].id, oids[2].id)
    /\ BytesLess(oids[2].id, oids[3].id)


\* C19: Increasing identifiers under concurrent callers: in every
\* interleaving of the NewObjectId calls of concurrent callers of one
\* process, the identifier of the call that incremented the shared counter
\* first is strictly smaller, byte for byte, than that of a call that
\* incremented it later, unless the counter wrapped between them within one
\* second.
C19_ConcurrentOrdering ==
    \A i \in DOMAIN oids : \A j \in DOMAIN oids :
        i < j =>
            \/ BytesLess(oids[i].id, oids[j].id)
            \/ (oids[i].t = oids[j].t /\ WrappedBetween(i, j))

\* the three bytes, most significant first, of a value below 2^24
BigEndian24(v) == <<v \div 65536, (v \div 256) % 256, v % 256>>

\* C20: Identifier counter field: bytes 9-11 of every identifier are the
\* big-endian encoding of the process-wide counter, as the call incremented
\* it, reduced modulo 2^24, also after the 32-bit counter has overflowed; so
\* no two of fewer than 2^24 consecutive calls have the same field.
C20_CounterField ==
    /\ \A i \in DOMAIN oids :
           SubSeq(oids[i].id, 10, 12) = BigEndian24(oids[i].added % 16777216)
    /\ \A i \in DOMAIN oids : \A j \in DOMAIN oids :
           i < j => SubSeq(oids[i].id, 10, 12) # SubSeq(oids[j].id, 10, 12)

\* C21: No lost counter updates: in every interleaving of concurrent
\* NewObjectId calls each call obtains its own value of the shared counter,
\* and two identifiers made in the same second with no counter wrap between
\* them differ.
C21_NoLostUpdate ==
    \A i \in DOMAIN oids : \A j \in DOMAIN oids :
        i < j =>
            /\ oids[i].added # oids[j].added
            /\ (oids[i].t = oids[j].t /\ ~WrappedBetween(i, j)) =>
                   oids[i].id # oids[j].id

\* two goroutines were inside NewObjectId at once, in one second: the second
\* to bump the counter had begun before the first returned
C21_Witness ==
    /\ Len(oids) = 2
    /\ oids[1].g # oids[2].g
    /\ oids[2].seen = 0
    /\ oids[1].t = oids[2].t
    /\ ~WrappedBetween(1, 2)
    /\ oids[1].added # oids[2].added
    /\ SubSeq(oids[1].id, 1, 9) = SubSeq(oids[2].id, 1, 9)
    /\ oids[1].id # oids[2].id

(***************************************************************************)
(* Errors of the encoder.                                                  *)
(***************************************************************************)
\* the host types encodeVal has a case for
EncodableKinds == CanonicalKinds \cup DocumentedKinds \cup {"BSON"}

\* the field names k and q joined with '.', q empty at the failing field
Dotted(k, q) == IF q = <<>> THEN k ELSE k \o <<46>> \o q

\* the values in v that have no coercion rule: for each its host type and
\* its field names from v down to it joined with '.', an array element named
\* by its decimal index
RECURSIVE BadLeaves(_)
BadLeaves(v) ==
    CASE Kind(v) = "Map" ->
           UNION {{[path |-> Dotted(k, q.path), what |-> q.what]
                   : q \in BadLeaves(Of(v)[k])} : k \in DOMAIN Of(v)}
      [] Kind(v) = "Slice" ->
           UNION {{[path |-> Dotted(Of(v)[i].Key, q.path), what |-> q.what]
                   : q \in BadLeaves(Of(v)[i].Val)} : i \in DOMAIN Of(v)}
      [] Kind(v) \in {"Array", "[]interface{}"} ->
           UNION {{[path |-> Dotted(Itoa(i - 1), q.path), what |-> q.what]
                   : q \in BadLeaves(Of(v)[i])} : i \in DOMAIN Of(v)}
      [] Kind(v) = "*" -> IF IsNilPtr(v) THEN {} ELSE BadLeaves(Of(v))
      [] Kind(v) \in EncodableKinds -> {}
      [] OTHER -> {[path |-> <<>>, what |-> Kind(v)]}

\* C15: Encode errors name the dotted field path and the offending type:
\* when one value in the document has no coercion rule, inside embedded
\* documents and arrays at any depth, Encode returns an error that names the
\* field names from the root to that value joined with '.' (an array element
\* by its decimal index) and the host type of the value.
C15_ErrorPath ==
    (Kind(src) \in {"Map", "Slice"} /\ Cardinality(BadLeaves(src)) = 1
        /\ bs.st # "none") =>
        /\ bs.st = "err"
        /\ [path |-> bs.path, what |-> bs.what] \in BadLeaves(src)

(***************************************************************************)
(* Arrays.                                                                 *)
(***************************************************************************)
\* the document has the one field "a"
HasOnlyA(d) ==
    \/ Kind(d) = "Slice" /\ Len(Of(d)) = 1 /\ Of(d)[1].Key = kA
    \/ Kind(d) = "Map" /\ DOMAIN Of(d) = {kA}

\* the value of the field "a" of such a document
ValueOfA(d) == IF Kind(d) = "Slice" THEN Of(d)[1].Val ELSE Of(d)[kA]

\* the decimal digits of an index below 100
DigitsOf(n) == IF n < 10 THEN <<n>> ELSE <<n \div 10, n % 10>>

\* the index key of i is before that of j as a string: "1" < "10" < "2"
KeyBefore(i, j) ==
    \/ DigitsOf(i)[1] < DigitsOf(j)[1]
    \/ /\ DigitsOf(i)[1] = DigitsOf(j)[1]
       /\ \/ Len(DigitsOf(i)) < Len(DigitsOf(j))
          \/ /\ Len(DigitsOf(i)) = 2
             /\ Len(DigitsOf(j)) = 2
             /\ DigitsOf(i)[2] < DigitsOf(j)[2]

\* the place, from 1, of the key of index i among the sorted keys "0".."n-1"
PlaceOfKey(i, n) == 1 + Cardinality({j \in 0..(n - 1) : KeyBefore(j, i)})

\* an array of at least one element, none of them a document or an array
IsLeafArray(v) ==
    /\ Kind(v) = "Array"
    /\ Len(Of(v)) > 0
    /\ \A i \in DOMAIN Of(v) : Kind(Of(v)[i]) \notin {"Map", "Slice", "Array", "BSON"}

RECURSIVE FullyDecoded(_)
FullyDecoded(v) ==
    /\ Kind(v) # "BSON"
    /\ Kind(v) = "Map" => \A k \in DOMAIN Of(v) : FullyDecoded(Of(v)[k])
    /\ Kind(v) = "Slice" => \A i \in DOMAIN Of(v) : FullyDecoded(Of(v)[i].Val)
    /\ Kind(v) = "Array" => \A i \in DOMAIN Of(v) : FullyDecoded(Of(v)[i])

\* the fields of the document d, as a set of <<position or name, value>>
FieldSet(d) ==
    IF Kind(d) = "Slice" THEN {<<i, Of(d)[i].Val>> : i \in DOMAIN Of(d)}
    ELSE {<<k, Of(d)[k]>> : k \in DOMAIN Of(d)}

ArrayFields(d) == {f \in FieldSet(d) : Kind(f[2]) = "Array"}

C27_NoFieldDropped ==
    (Kind(src) = "Slice" /\ dst["Slice"].st = "ok") =>
        /\ Len(Of(dst["Slice"].v)) = Len(Of(src))
        /\ \A i \in DOMAIN Of(src) : Of(dst["Slice"].v)[i].Key = Of(src)[i].Key

\* an Array is somewhere in v
RECURSIVE HasArray(_)
HasArray(v) ==
    \/ Kind(v) = "Array"
    \/ Kind(v) = "Map" /\ \E k \in DOMAIN Of(v) : HasArray(Of(v)[k])
    \/ Kind(v) = "Slice" /\ \E i \in DOMAIN Of(v) : HasArray(Of(v)[i].Val)

\* C28: Order preservation at every depth: ReadSlice / BSON.Slice returns
\* every embedded document, at every depth and also as an element of an
\* Array, as a Slice whose pairs are in wire order; none is returned as a Map
\* (the scope of a JavascriptScope, declared a Map, excepted).
C28_OrderAtEveryDepth ==
    dst["Slice"].st = "ok" =>
        /\ IsShaped(dst["Slice"].v, "Slice")
        /\ (IsShaped(src, "Slice") /\ IsCanonical(src) /\ ~HasArray(src)) =>
               dst["Slice"].v = src

(***************************************************************************)
(* Framing of the encoder's output: the bytes are walked element by        *)
(* element by the sizes the wire format gives each element type.           *)
(***************************************************************************)
\* the little-endian int32 at b[i..i+3], -1 when b ends before it
LenAt(b, i) == IF i + 3 > Len(b) THEN -1 ELSE Int32OfBytes(SubSeq(b, i, i + 3))

\* a length-prefixed string starts at b[i]: its length is that of the
\* payload plus one, and the payload is followed by one NUL
FramedString(b, i, hi) ==
    /\ LenAt(b, i) >= 1
    /\ i + 3 + LenAt(b, i) < hi
    /\ b[i + 3 + LenAt(b, i)] = 0

RECURSIVE Framed(_, _, _)
RECURSIVE FramedElems(_, _, _)
RECURSIVE FramedValue(_, _, _, _)

\* b[lo..hi] is a document: its first four bytes are its length, its last
\* byte is 0x00, and so for every document and array in it
Framed(b, lo, hi) ==
    /\ hi - lo + 1 >= 5
    /\ LenAt(b, lo) = hi - lo + 1
    /\ b[hi] = 0
    /\ FramedElems(b, lo + 4, hi)

\* the elements from b[i] up to the closing byte b[hi]
FramedElems(b, i, hi) ==
    IF i = hi THEN TRUE
    ELSE IF i > hi THEN FALSE
    ELSE FramedValue(b, b[i], IndexNul(b, i + 1), hi)

\* the element of type tag whose name ends with the NUL at b[z]
FramedValue(b, tag, z, hi) ==
    IF z = 0 \/ z >= hi THEN FALSE
    ELSE CASE tag \in {_FLOATING_POINT, _UTC_DATETIME, _TIMESTAMP, _64BIT_INTEGER} ->
                FramedElems(b, z + 9, hi)
           [] tag \in {_STRING, _JAVASCRIPT, _SYMBOL} ->
                /\ FramedString(b, z + 1, hi)
                /\ FramedElems(b, z + 5 + LenAt(b, z + 1), hi)
           [] tag \in {_EMBEDDED_DOCUMENT, _ARRAY} ->
                /\ LenAt(b, z + 1) >= 5
                /\ z + LenAt(b, z + 1) < hi
                /\ Framed(b, z + 1, z + LenAt(b, z + 1))
                /\ FramedElems(b, z + 1 + LenAt(b, z + 1), hi)
           [] tag = _BINARY_DATA ->
                /\ LenAt(b, z + 1) >= 0
                /\ FramedElems(b, z + 6 + LenAt(b, z + 1), hi)
           [] tag \in {_UNDEFINED, _NULL_VALUE, _MIN_KEY, _MAX_KEY} ->
                FramedElems(b, z + 1, hi)
           [] tag = _OBJECT_ID -> FramedElems(b, z + 13, hi)
           [] tag = _BOOLEAN -> FramedElems(b, z + 2, hi)
           [] tag = _REGEXP ->
                /\ IndexNul(b, z + 1) # 0
                /\ IndexNul(b, IndexNul(b, z + 1) + 1) # 0
                /\ FramedElems(b, IndexNul(b, IndexNul(b, z + 1) + 1) + 1, hi)
           [] tag = _DBPOINTER ->
                /\ FramedString(b, z + 1, hi)
                /\ FramedElems(b, z + 17 + LenAt(b, z + 1), hi)
           [] tag = _JAVASCRIPT_SCOPE ->
                /\ FramedString(b, z + 5, hi)
                /\ z + LenAt(b, z + 1) < hi
                /\ Framed(b, z + 9 + LenAt(b, z + 5), z + LenAt(b, z + 1))
                /\ FramedElems(b, z + 1 + LenAt(b, z + 1), hi)
           [] tag = _32BIT_INTEGER -> FramedElems(b, z + 5, hi)
           [] OTHER -> FALSE

\* C14: Length-prefix invariant: in every byte sequence that a successful
\* Map.Encode, Slice.Encode or EncodeStruct returns, the first four bytes
\* are the little-endian length of the whole sequence and the last byte is
\* 0x00; so for the body of every embedded document and array in it; and
\* every length-prefixed string stores the payload length plus one, the
\* payload and one NUL.
C14_LengthPrefix ==
    /\ bs.st = "ok" => Framed(bs.b, 1, Len(bs.b))
    /\ bs2.st = "ok" => Framed(bs2.b, 1, Len(bs2.b))

\* Slice.Encode returned the 41 bytes of a document that holds an embedded
\* document, which holds a string and an array
C14_Witness ==
    /\ src = Slice(<<Pair(kA, Slice(<<Pair(kA, String(kB)),
                                      Pair(kB, Array(<<Int64(7)>>))>>))>>)
    /\ bs.st = "ok"
    /\ Len(bs.b) = 41
    /\ SubSeq(bs.b, 1, 4) = <<41, 0, 0, 0>>
    /\ bs.b[5] = _EMBEDDED_DOCUMENT
    /\ SubSeq(bs.b, 8, 11) = <<33, 0, 0, 0>>
    /\ bs.b[40] = 0
    /\ bs.b[41] = 0

(***************************************************************************)
(* Reads of a stream (decode.go).  The reader is a bytes.Buffer: a Read    *)
(* hands over every byte asked for that the buffer still holds.            *)
(***************************************************************************)
\* documents concatenated into one stream
MaxDocs == 2
\* reads of one stream
MaxReads == MaxDocs + 1

\* ReadOne taking docLen bytes after the length prefix
ReadOneTakenBody(rd) ==
    LET n == readInt32(rd)
    IN IF n.st # "ok" THEN Len(rd)
       ELSE IF n.v > maxDocLen \/ n.v < 4 THEN 4
       ELSE 4 + Min(n.v, Len(n.rest))

\* The bytes ReadOne takes from its reader: io.ReadFull for the length takes
\* what there is up to four bytes; a length above maxDocLen returns, and a
\* length below four panics, before the body is read; io.ReadFull for the
\* body takes what there is up to docLen - 4 bytes.
ReadOneTaken(rd) ==
    LET n == readInt32(rd)
    IN IF n.st # "ok" THEN Len(rd)
       ELSE IF n.v > maxDocLen \/ n.v < 4 THEN 4
       ELSE 4 + Min(n.v - 4, Len(n.rest))

\* decodeMap without the check of the length against maxDocLen
decodeTakenUnchecked(rdTmp) ==
    LET n == readInt32(rdTmp)
    IN IF n.st # "ok" THEN Len(rdTmp)
       ELSE 4 + LimitTake(n.rest, n.v)

\* The bytes decodeMap and decodeSlice take from rdTmp: the length, and, for
\* a length within maxDocLen, what the first fill of the bufio.Reader draws
\* through the io.LimitReader (documents are shorter than bufio's buffer).
decodeTaken(rdTmp) ==
    LET n == readInt32(rdTmp)
    IN IF n.st # "ok" THEN Len(rdTmp)
       ELSE IF n.v > maxDocLen THEN 4
       ELSE 4 + LimitTake(n.rest, n.v)

RECURSIVE Concat(_)
Concat(ss) == IF ss = <<>> THEN <<>> ELSE Head(ss) \o Concat(Tail(ss))

\* the documents whose encodings are written to the stream
StreamSrcs ==
    {Map(EmptyMap), (Map(sFoo :> <<"string", sBar>>)),
     Slice(<<Pair(kA, Slice(<<Pair(kB, Int32(1))>>)), Pair(kB, Null)>>)}

StreamDocs == UNION {Encodings(d) : d \in StreamSrcs}

\* what follows the documents in the stream: nothing, a length above
\* maxDocLen (alone, before a document, at the int32 maximum), a length of
\* exactly maxDocLen, a negative length, a document cut short, a length
\* shorter than the length field, a document whose first element type is
\* 0x00 with bytes of its length after it
StreamTails ==
    {<<>>, PutUint32(maxDocLen + 1), PutUint32(maxDocLen + 1) \o <<5, 0, 0, 0, 0>>,
     PutUint32(2147483647) \o <<16, 97, 0>>, PutUint32(maxDocLen) \o <<0>>,
     <<255, 255, 255, 255, 0>>, <<8, 0, 0, 0, 16>>, <<0, 0, 0, 0>>, <<3, 0, 0, 0, 0>>,
     <<8, 0, 0, 0, 0, 16, 97, 0>>}

\* src is the sequence of the encoded documents
InitStream ==
    /\ src \in SeqsUpTo(StreamDocs, MaxDocs)
    /\ \E t \in StreamTails : stream = Concat(src) \o t
    /\ got = <<>>
    /\ bs = NoBytes
    /\ dst = [m \in Modes |-> NoDoc]
    /\ bs2 = NoBytes
    /\ path = <<>>
    /\ dest = <<>>
    /\ ret = <<>>
    /\ lastCount = 0
    /\ now = 0
    /\ oids = <<>>
    /\ call = <<>>
    /\ proc = oid0

\* one call of a reader on the stream: r is what it returns, taken the
\* number of bytes it takes
StreamRead(fn, r, taken) ==
    /\ Len(got) < MaxReads
    /\ got' = Append(got, [fn |-> fn, st |-> r.st, v |-> r.v, before |-> stream,
                           taken |-> taken])
    /\ stream' = Drop(stream, taken)
    /\ UNCHANGED <<src, bs, dst, bs2, path, dest, ret, lastCount, now, oids, call, proc>>

StreamReadOne == StreamRead("ReadOne", ReadOne(stream), ReadOneTaken(stream))

StreamReadMap == StreamRead("ReadMap", ReadMap(stream), decodeTaken(stream))

StreamReadMapNoNest ==
    StreamRead("ReadMapNoNest", ReadMapNoNest(stream), decodeTaken(stream))

StreamReadSlice == StreamRead("ReadSlice", ReadSlice(stream), decodeTaken(stream))

StreamReadSliceNoNest ==
    StreamRead("ReadSliceNoNest", ReadSliceNoNest(stream), decodeTaken(stream))

NextStream ==
    \/ StreamReadOne
    \/ StreamReadMap
    \/ StreamReadMapNoNest
    \/ StreamReadSlice
    \/ StreamReadSliceNoNest

SpecStream == InitStream /\ [][NextStream]_vars

\* the bytes the io.LimitReader of decodeMap and decodeSlice lets through
Limited(rdTmp) ==
    SubSeq(readInt32(rdTmp).rest, 1,
           LimitTake(readInt32(rdTmp).rest, readInt32(rdTmp).v))

\* the offset in rdTmp of the 0x00 at which the element loop returned r,
\* 0 when the loop failed
decodeEndsAtDoc(rdTmp, r) ==
    IF r.st # "ok" THEN 0 ELSE 4 + Len(Limited(rdTmp)) - Len(r.rest)

\* the offset in rdTmp of the element type 0x00 at which decodeMap
\* ("Map") or decodeSlice ("Slice") returns its document
decodeEndsAt(rdTmp, nest, shape) ==
    IF readInt32(rdTmp).st # "ok" \/ readInt32(rdTmp).v > maxDocLen THEN 0
    ELSE IF shape = "Map"
         THEN decodeEndsAtDoc(rdTmp, decodeMapLoop(Limited(rdTmp), EmptyMap, nest))
         ELSE decodeEndsAtDoc(rdTmp, decodeSliceLoop(Limited(rdTmp), <<>>, nest))

(***************************************************************************)
(* Properties of the reads of a stream.                                    *)
(***************************************************************************)
\* the stream as it was before the first read
Stream0 == IF got = <<>> THEN stream ELSE got[1].before

\* the stream as read j left it
StreamAfter(j) == IF j < Len(got) THEN got[j + 1].before ELSE stream

\* the first j reads were calls of ReadOne
OnlyReadOne(j) == \A i \in 1..j : got[i].fn = "ReadOne"

\* C11: Stream sequencing: when k independently encoded documents are
\* concatenated into one stream, the j-th of k successive ReadOne calls
\* returns the bytes of the j-th document unchanged, takes exactly that
\* document's bytes (length prefix and body) from the stream, and leaves the
\* stream at the first byte after it.
C11_StreamSequencing ==
    \A j \in 1..Len(got) :
        (j <= Len(src) /\ OnlyReadOne(j)) =>
            /\ got[j].st = "ok"
            /\ got[j].v = src[j]
            /\ got[j].taken = Len(src[j])
            /\ got[j].before = Drop(Stream0, Len(Concat(SubSeq(src, 1, j - 1))))
            /\ StreamAfter(j) = Drop(Stream0, Len(Concat(SubSeq(src, 1, j))))

\* two different documents were read back by two calls of ReadOne, and the
\* stream is left at the bytes that follow the second
C11_Witness ==
    /\ Len(src) = 2
    /\ src[1] # src[2]
    /\ Len(got) = 2
    /\ OnlyReadOne(2)
    /\ got[1].v = src[1]
    /\ got[2].v = src[2]
    /\ stream = <<8, 0, 0, 0, 16>>

\* the length prefix at the head of rd, for rd of four bytes or more
DeclaredLen(rd) == Int32OfBytes(SubSeq(rd, 1, 4))

\* C12: Size-ceiling rejection: a call of ReadOne, ReadMap, ReadMapNoNest,
\* ReadSlice or ReadSliceNoNest on a stream whose length prefix declares more
\* than maxDocLen returns an error and takes the four bytes of the prefix
\* and no more from the stream, whatever follows the prefix; the one ceiling
\* maxDocLen holds for each of the five.
C12_SizeCeiling ==
    \A i \in 1..Len(got) :
        (Len(got[i].before) >= 4 /\ DeclaredLen(got[i].before) > maxDocLen) =>
            /\ got[i].st = "err"
            /\ got[i].taken = 4
            /\ StreamAfter(i) = Drop(got[i].before, 4)

\* ReadMap turned down a length of maxDocLen + 1 that a document followed,
\* and the next call, ReadOne, returned that document
C12_Witness ==
    /\ Len(got) >= 2
    /\ got[Len(got) - 1].fn = "ReadMap"
    /\ got[Len(got) - 1].before = PutUint32(maxDocLen + 1) \o <<5, 0, 0, 0, 0>>
    /\ got[Len(got) - 1].st = "err"
    /\ got[Len(got)].fn = "ReadOne"
    /\ got[Len(got)].st = "ok"
    /\ got[Len(got)].v = <<5, 0, 0, 0, 0>>
    /\ stream = <<>>


\* C29: ReadOne always ends in a value or an error: on every stream, also one
\* whose declared length is negative, is 0..3, or is more than the bytes
\* there are, ReadOne returns a buffer of exactly the declared length or an
\* error; it never crashes and never returns a partial buffer.
C29_ReadOneTotal ==
    \A i \in DOMAIN got :
        got[i].fn = "ReadOne" =>
            \/ got[i].st = "err"
            \/ /\ got[i].st = "ok"
               /\ Len(got[i].before) >= 4
               /\ Len(got[i].v) = DeclaredLen(got[i].before)

\* the shape and the nesting of the four decoding entry points
ShapeOf(fn) == IF fn \in {"ReadMap", "ReadMapNoNest"} THEN "Map" ELSE "Slice"
NestOf(fn) == fn \in {"ReadMap", "ReadSlice"}

\* C30: Decode consumes exactly the declared document: a call of ReadMap,
\* ReadMapNoNest, ReadSlice or ReadSliceNoNest never takes more bytes from
\* the caller's stream than the length the document declares, and returns a
\* document only when the terminating 0x00 is the last byte of that length,
\* leaving the stream at the first byte after the document, so that repeated
\* calls decode the consecutive documents of a stream.
C30_DecodeConsumption ==
    \A i \in DOMAIN got :
        (/\ got[i].fn # "ReadOne"
         /\ Len(got[i].before) >= 4
         /\ DeclaredLen(got[i].before) >= 4) =>
            /\ got[i].taken <= DeclaredLen(got[i].before)
            /\ got[i].st = "ok" =>
                   /\ decodeEndsAt(got[i].before, NestOf(got[i].fn), ShapeOf(got[i].fn))
                          = DeclaredLen(got[i].before)
                   /\ StreamAfter(i) = Drop(got[i].before, DeclaredLen(got[i].before))

(***************************************************************************)
(* Declared lengths (decode.go).  The input is a length field and the      *)
(* bytes that follow it, handed to each function that sizes a buffer by a  *)
(* length it reads: readString, decodeBinary and ReadOne, and to decodeMap,*)
(* which limits its reader by the length.  got records, for each call,     *)
(* what it returned and the lengths it handed to make.                     *)
(***************************************************************************)
\* bytes that follow the length field
MaxPayload == 3

\* readString, line 745: make([]byte, sLen), reached for a length that is
\* not zero and not above maxDocLen
readStringMade(rd) ==
    IF readInt32(rd).st # "ok" \/ readInt32(rd).v = 0 \/ readInt32(rd).v > maxDocLen
    THEN <<>>
    ELSE <<readInt32(rd).v>>

\* decodeBinary, line 449: make([]byte, dataLen), reached once the name, the
\* length and the subtype are read
decodeBinaryMadeAt(n) ==
    IF n.st # "ok" \/ n.rest = <<>> THEN <<>> ELSE <<n.v>>

decodeBinaryMade(rd) ==
    IF readCstring(rd).st # "ok" THEN <<>>
    ELSE decodeBinaryMadeAt(readInt32(readCstring(rd).rest))

\* ReadOne, line 26: make([]byte, int(docLen)), reached for a length not
\* above maxDocLen
ReadOneMade(rd) ==
    IF readInt32(rd).st # "ok" \/ readInt32(rd).v > maxDocLen THEN <<>>
    ELSE <<readInt32(rd).v>>

\* the lengths declared: negative, zero, too short for what they measure,
\* true, the ceiling, above the ceiling, the int32 maximum
DeclaredLens == {-1, 0, 1, 3, 4, 5, maxDocLen, maxDocLen + 1, 2147483647}

InitLengths ==
    /\ src \in DeclaredLens
    /\ \E p \in SeqsUpTo({0, 97}, MaxPayload) : stream = writeInt32(src) \o p
    /\ got = <<>>
    /\ bs = NoBytes
    /\ dst = [m \in Modes |-> NoDoc]
    /\ bs2 = NoBytes
    /\ path = <<>>
    /\ dest = <<>>
    /\ ret = <<>>
    /\ lastCount = 0
    /\ now = 0
    /\ oids = <<>>
    /\ call = <<>>
    /\ proc = oid0

\* one call on the input: st is how it ended, made the lengths it handed to
\* make
LengthCall(fn, st, made) ==
    /\ \A i \in DOMAIN got : got[i].fn # fn
    /\ got' = Append(got, [fn |-> fn, st |-> st, made |-> made])
    /\ UNCHANGED <<src, bs, dst, bs2, path, dest, ret, lastCount, now, oids, call, proc,
                   stream>>

CallReadString == LengthCall("readString", readString(stream).st, readStringMade(stream))

\* decodeBinary on an element named "a": a subtype byte follows the length
CallDecodeBinary ==
    LengthCall("decodeBinary", decodeBinary(writeCstring(kA) \o stream).st,
               decodeBinaryMade(writeCstring(kA) \o stream))

CallReadOne == LengthCall("ReadOne", ReadOne(stream).st, ReadOneMade(stream))

\* decodeMap sizes no buffer by the length
CallDecodeMap == LengthCall("decodeMap", decodeMap(stream, TRUE).st, <<>>)

NextLengths ==
    \/ CallReadString
    \/ CallDecodeBinary
    \/ CallReadOne
    \/ CallDecodeMap

SpecLengths == InitLengths /\ [][NextLengths]_vars

\* C25: Declared lengths are validated before allocation: every length the
\* decoder reads from its input (of a document, a string, a binary payload)
\* is checked against the size ceiling, and for being negative, before a
\* buffer of that length is made; a length out of range yields an error
\* return and no allocation of that size.
C25_LengthsValidated ==
    \A i \in DOMAIN got :
        /\ \A k \in DOMAIN got[i].made :
               got[i].made[k] >= 0 /\ got[i].made[k] <= maxDocLen
        /\ (src < 0 \/ src > maxDocLen) => (got[i].st = "err" /\ got[i].made = <<>>)

(***************************************************************************)
(* A time.Time through the encoder, the decoder and Reach.                 *)
(***************************************************************************)
\* instants, in nanoseconds since the epoch: within the first millisecond, on
\* a whole millisecond, between two, before the epoch
Instants ==
    {0, 999999, 1000000, 1500000, 123456789, 1500000000, 2000000000, -1, -1000000,
     -1500000}

\* src is a document of the one field "a", a time.Time; dest.init is the
\* time.Time variable handed to Reach
InitTime ==
    /\ \E t \in Instants :
           src \in {(Map(kA :> <<"time.Time", t>>)), Slice(<<Pair(kA, <<"time.Time", t>>)>>)}
    /\ bs = NoBytes
    /\ dst = [m \in Modes |-> NoDoc]
    /\ bs2 = NoBytes
    /\ path = <<kA>>
    /\ \E d \in {<<"time.Time", 7>>} : dest = [init |-> d, Map |-> d, Slice |-> d]
    /\ ret = [Map |-> NoReturn, Slice |-> NoReturn]
    /\ lastCount = 0
    /\ now = 0
    /\ oids = <<>>
    /\ call = <<>>
    /\ proc = oid0
    /\ stream = <<>>
    /\ got = <<>>

\* Reach on the document decoded to the given shape
ReachDecoded(shape) ==
    /\ dst[shape].st = "ok"
    /\ ret[shape].st = "none"
    /\ LET r == Reach(dst[shape].v, dest.init, path)
       IN /\ ret' = [ret EXCEPT ![shape] = [st |-> r.st, found |-> r.found, err |-> r.err]]
          /\ dest' = [dest EXCEPT ![shape] = r.dest]
    /\ UNCHANGED <<src, bs, dst, bs2, path, lastCount, now, oids, call, proc, stream, got>>

\* BSON.Map, then Map.Reach
MapReachDecoded == ReachDecoded("Map")

\* BSON.Slice, then Slice.Reach
SliceReachDecoded == ReachDecoded("Slice")

NextTime ==
    \/ MapEncode
    \/ SliceEncode
    \/ BSONMap
    \/ BSONSlice
    \/ MapReachDecoded
    \/ SliceReachDecoded

SpecTime == InitTime /\ [][NextTime]_vars

\* C26: Wall-clock round trip: for every time.Time t, encoding a document
\* that holds t, decoding it and reaching the field into a time.Time yields
\* the instant of t truncated to whole milliseconds: the conversion of the
\* encoder (nanoseconds / 1000 / 1000) and that of Reach are inverse up to
\* the truncation.
C26_TimeRoundTrip ==
    \A shape \in {"Map", "Slice"} :
        Done(shape) =>
            /\ ret[shape] = FoundNoError
            /\ dest[shape] = <<"time.Time", Millis(Of(ValueOfA(src))) * 1000000>>

(***************************************************************************)
(* Raw documents (BSON values): encoding a document that holds them, and   *)
(* encoding again what a decode without nesting returned.  In these        *)
(* behaviours bs2 is the encoding of dst["MapNoNest"] or                   *)
(* dst["SliceNoNest"].                                                     *)
(***************************************************************************)
\* the documents handed over already encoded
RawInner ==
    {Slice(<<>>), Slice(<<Pair(kA, Int32(1))>>),
     Slice(<<Pair(kB, Slice(<<Pair(kA, Null)>>))>>)}

RawBytes == UNION {Encodings(d) : d \in RawInner}

\* documents one of whose fields is a BSON value
RawSrcs ==
    UNION {{Slice(<<Pair(kA, BSON(r))>>),
            Slice(<<Pair(kA, Int32(1)), Pair(kB, BSON(r))>>),
            Slice(<<Pair(kA, BSON(r)), Pair(kB, String(sFoo))>>),
            (Map(kA :> BSON(r))),
            (Map((kA :> BSON(r)) @@ (kB :> Bool(TRUE))))} : r \in RawBytes}

\* Slice documents of one field, canonical throughout
OneFieldSlices ==
    {Slice(<<Pair(kA, v)>>) : v \in EmbeddedSlices \cup {Int32(123), String(sFoo)}}

InitRaw ==
    /\ src \in RawSrcs \cup OneFieldSlices
    /\ bs = NoBytes
    /\ dst = [m \in Modes |-> NoDoc]
    /\ bs2 = NoBytes
    /\ path = <<>>
    /\ dest = <<>>
    /\ ret = <<>>
    /\ lastCount = 0
    /\ now = 0
    /\ oids = <<>>
    /\ call = <<>>
    /\ proc = oid0
    /\ stream = <<>>
    /\ got = <<>>

\* Encode of the document that BSON.MapNoNest / BSON.SliceNoNest returned
EncodeNoNest ==
    /\ Kind(src) \in {"Map", "Slice"}
    /\ dst[IF Kind(src) = "Map" THEN "MapNoNest" ELSE "SliceNoNest"].st = "ok"
    /\ bs2.st = "none"
    /\ \E r \in IF Kind(src) = "Map" THEN encodeMap(<<>>, Of(dst["MapNoNest"].v))
                ELSE encodeSlice(<<>>, Of(dst["SliceNoNest"].v)) :
           bs2' = Returned(r)
    /\ UNCHANGED <<src, bs, dst, path, dest, ret, lastCount, now, oids, call, proc, stream, got>>

NextRaw ==
    \/ MapEncode
    \/ SliceEncode
    \/ BSONMap
    \/ BSONMapNoNest
    \/ BSONSlice
    \/ BSONSliceNoNest
    \/ EncodeNoNest

SpecRaw == InitRaw /\ [][NextRaw]_vars

\* d has a field that holds a BSON value
HasRaw(d) == \E k \in DOMAIN FieldsOf(d) : Kind(FieldsOf(d)[k]) = "BSON"

\* the elements of a well-formed document for the given fields, a BSON value
\* written as an embedded-document element: tag, name, the raw bytes
RECURSIVE RawBody(_)
RawBody(pairs) ==
    IF pairs = <<>> THEN <<>>
    ELSE (IF Kind(Head(pairs).Val) = "BSON"
          THEN <<_EMBEDDED_DOCUMENT>> \o Head(pairs).Key \o <<0>> \o Of(Head(pairs).Val)
          ELSE (CHOOSE r \in encodeVal(<<>>, Head(pairs).Key, Head(pairs).Val) : TRUE).b)
         \o RawBody(Tail(pairs))

\* the well-formed encodings of d
RawEncodings(d) ==
    IF Kind(d) = "Slice" THEN {FinishDoc(RawBody(Of(d)))}
    ELSE {FinishDoc(RawBody([i \in DOMAIN o |-> Pair(o[i], Of(d)[o[i]])]))
          : o \in Orders(DOMAIN Of(d))}

\* d with each BSON value replaced by the document it encodes
RawDecoded(d) ==
    IF Kind(d) = "Slice"
    THEN Slice([i \in DOMAIN Of(d) |->
                   IF Kind(Of(d)[i].Val) = "BSON"
                   THEN Pair(Of(d)[i].Key, ReadSlice(Of(Of(d)[i].Val)).v)
                   ELSE Of(d)[i]])
    ELSE Map([k \in DOMAIN Of(d) |->
                 IF Kind(Of(d)[k]) = "BSON" THEN ReadMap(Of(Of(d)[k])).v ELSE Of(d)[k]])

\* C13: Raw documents are substituted verbatim: encoding a document one of
\* whose fields holds a BSON value succeeds with a well-formed document in
\* which the field is an embedded-document element (0x03, the name, the raw
\* bytes unchanged); decoding it with nesting returns the document with the
\* raw field in decoded form; and for the encoding b of a canonical Slice
\* document, encoding what BSON.SliceNoNest returns for b gives b again.
C13_RawVerbatim ==
    /\ (Kind(src) \in {"Map", "Slice"} /\ HasRaw(src) /\ bs.st # "none") =>
           /\ bs.st = "ok"
           /\ bs.b \in RawEncodings(src)
           /\ dst[Kind(src)].st # "none" =>
                  (dst[Kind(src)].st = "ok" /\ dst[Kind(src)].v = RawDecoded(src))
    /\ (Kind(src) = "Slice" /\ IsCanonical(src) /\ bs2.st # "none") =>
           (bs2.st = "ok" /\ bs2.b = bs.b)


(***************************************************************************)
(* Names with a 0x00 byte (encode.go, writeCstring).                       *)
(***************************************************************************)
\* names and Regexp strings, with and without a 0x00 byte
NulNames == {<<0>>, <<97, 0>>, <<0, 98>>, <<97, 0, 98>>}

PlainNames == {kA, sFoo}

\* documents with the given strings as a field name, as the name of a field
\* of an embedded document, and as the pattern or the options of a Regexp
NamedDocs(names) ==
    UNION {{Slice(<<Pair(n, Int32(1))>>), (Map(n :> Null)),
            Slice(<<Pair(kB, String(sFoo)), Pair(n, Bool(TRUE))>>),
            Slice(<<Pair(kA, Slice(<<Pair(n, Bool(TRUE))>>))>>),
            (Map(kA :> Map(n :> Int32(1)))),
            Slice(<<Pair(kA, Regexp(n, sBar))>>),
            (Map(kA :> Regexp(sFoo, n)))} : n \in names}

InitNames ==
    /\ src \in NamedDocs(NulNames) \cup NamedDocs(PlainNames)
    /\ bs = NoBytes
    /\ dst = [m \in Modes |-> NoDoc]
    /\ bs2 = NoBytes
    /\ path = <<>>
    /\ dest = <<>>
    /\ ret = <<>>
    /\ lastCount = 0
    /\ now = 0
    /\ oids = <<>>
    /\ call = <<>>
    /\ proc = oid0
    /\ stream = <<>>
    /\ got = <<>>

NextNames ==
    \/ MapEncode
    \/ SliceEncode
    \/ BSONMap
    \/ BSONMapNoNest
    \/ BSONSlice
    \/ BSONSliceNoNest

SpecNames == InitNames /\ [][NextNames]_vars

HasZero(s) == \E i \in DOMAIN s : s[i] = 0

\* a field name of v, at any depth, or the pattern or the options of a
\* Regexp in v holds a 0x00 byte
RECURSIVE HasNulName(_)
HasNulName(v) ==
    CASE Kind(v) = "Map" ->
           \E k \in DOMAIN Of(v) : HasZero(k) \/ HasNulName(Of(v)[k])
      [] Kind(v) = "Slice" ->
           \E i \in DOMAIN Of(v) : HasZero(Of(v)[i].Key) \/ HasNulName(Of(v)[i].Val)
      [] Kind(v) = "Array" -> \E i \in DOMAIN Of(v) : HasNulName(Of(v)[i])
      [] Kind(v) = "Regexp" -> HasZero(Of(v).Pattern) \/ HasZero(Of(v).Options)
      [] OTHER -> FALSE

\* C16: Names containing NUL are rejected: Encode of a document in which a
\* field name, or the pattern or the options of a Regexp, holds a 0x00 byte
\* fails, so that no successful Encode emits a name with an embedded NUL.
C16_NulNameRejected ==
    (HasNulName(src) /\ bs.st # "none") => bs.st = "err"

====
